---- MODULE Spec2Model ----
(***************************************************************************)
(* Model of the reconciliation engine of italaw_scraper                    *)
(* (src/scraper/incremental.py, src/utility/cleaning.py).                  *)
(*                                                                         *)
(* Python strings are sequences of one-character strings.  The two missing *)
(* values of the program, None and float('nan'), are the one-element       *)
(* sequences None and NaN: their single element is longer than one         *)
(* character, so neither is a string of the program.                       *)
(***************************************************************************)
EXTENDS Integers, Sequences, FiniteSets, TLC

VARIABLES df, scraped, cmp, pc, pass, existing, call, documents_dir, missing,
          scan, fetch, png, csv_file, pdf_src, downloads, interrupted

\* The variables of the other pipelines' steps (see the sections below)
others == <<scan, fetch, png, csv_file, pdf_src, downloads, interrupted>>

vars == <<df, scraped, cmp, pc, pass, existing, call, documents_dir, missing, others>>

\* ------------------------------------------------------------------ bounds

\* Cases in one scrape.
MaxCases == 2
\* Documents in one scrape (over all its cases).
MaxDocs == 2
\* Rows of the dataset file a run starts from.
MaxInitRows == 2
\* Times the same scraped case list is reconciled again after the first pass.
MaxPass == 1

\* ------------------------------------------------------- values and strings

None == <<"None">>
NaN == <<"NaN">>

\* pd.isna(x)
IsNA(x) == x = None \/ x = NaN

\* "Normalize None/NaN": if pd.isna(v): v = None
NormNA(x) == IF IsNA(x) THEN None ELSE x

\* Python truth value of a str / None / float('nan') object: `not x` is its negation.
Truthy(x) == x # None /\ x # <<>>

UpperCase == <<"A","B","C","D","E","F","G","H","I","J","K","L","M",
               "N","O","P","Q","R","S","T","U","V","W","X","Y","Z">>
LowerCase == <<"a","b","c","d","e","f","g","h","i","j","k","l","m",
               "n","o","p","q","r","s","t","u","v","w","x","y","z">>
Digits == <<"0","1","2","3","4","5","6","7","8","9">>

Range(s) == {s[i] : i \in DOMAIN s}

UpperSet == Range(UpperCase)
LowerSet == Range(LowerCase)
DigitSet == Range(Digits)

\* str.lower() on one character
LowerChar(c) ==
    IF c \in UpperSet
    THEN LowerCase[CHOOSE i \in DOMAIN UpperCase : UpperCase[i] = c]
    ELSE c

\* text.lower()
Lower(text) == [i \in DOMAIN text |-> LowerChar(text[i])]

\* the character class [a-z0-9]
IsAlnum(c) == c \in LowerSet \/ c \in DigitSet

\* re.sub(r'[^a-z0-9]+', '_', text): every maximal run of characters outside
\* [a-z0-9] becomes one underscore.
RECURSIVE SubRuns(_, _)
SubRuns(text, i) ==
    IF i > Len(text) THEN <<>>
    ELSE IF IsAlnum(text[i]) THEN <<text[i]>> \o SubRuns(text, i + 1)
    ELSE IF i > 1 /\ ~IsAlnum(text[i - 1]) THEN SubRuns(text, i + 1)
    ELSE <<"_">> \o SubRuns(text, i + 1)

\* text.strip('_')
RECURSIVE LStrip(_)
LStrip(text) ==
    IF text # <<>> /\ Head(text) = "_" THEN LStrip(Tail(text)) ELSE text

RECURSIVE RStrip(_)
RStrip(text) ==
    IF text # <<>> /\ text[Len(text)] = "_"
    THEN RStrip(SubSeq(text, 1, Len(text) - 1))
    ELSE text

Strip(text) == RStrip(LStrip(text))

\* Defect variant of to_snake_case: the final strip('_') is left out.
to_snake_case_NoStrip(text) == SubRuns(Lower(text), 1)

\* to_snake_case(text), for text a str
to_snake_case(text) == Strip(SubRuns(Lower(text), 1))

\* ------------------------------------------------------------------- years

\* year_of_initiation as the case records carry it: a Python int, a float
\* (n in tenths), float('nan'), None, or a str s.
YInt(n) == [k |-> "int", n |-> n, s |-> <<>>]
YFloat(tenths) == [k |-> "float", n |-> tenths, s |-> <<>>]
YNaN == [k |-> "nan", n |-> 0, s |-> <<>>]
YNone == [k |-> "none", n |-> 0, s |-> <<>>]
YStr(s) == [k |-> "str", n |-> 0, s |-> s]

\* `not year` is FALSE
YearTruthy(y) ==
    CASE y.k = "int" -> y.n # 0
      [] y.k = "float" -> y.n # 0
      [] y.k = "nan" -> TRUE
      [] y.k = "none" -> FALSE
      [] y.k = "str" -> y.s # <<>>

DigitVal(c) == (CHOOSE i \in DOMAIN Digits : Digits[i] = c) - 1

RECURSIVE ParseNat(_, _)
ParseNat(s, acc) ==
    IF s = <<>> THEN acc ELSE ParseNat(Tail(s), 10 * acc + DigitVal(Head(s)))

\* int(year) raises (ValueError for nan and for a non-numeric str, TypeError for None)
IntRaises(y) ==
    CASE y.k = "int" -> FALSE
      [] y.k = "float" -> FALSE
      [] y.k = "nan" -> TRUE
      [] y.k = "none" -> TRUE
      [] y.k = "str" -> y.s = <<>> \/ \E i \in DOMAIN y.s : y.s[i] \notin DigitSet

\* int(year), where it does not raise
IntOf(y) ==
    CASE y.k = "int" -> y.n
      [] y.k = "float" -> y.n \div 10
      [] y.k = "str" -> ParseNat(y.s, 0)

\* str(n) of a natural number, as the f-string formats it
RECURSIVE IntStr(_)
IntStr(n) ==
    IF n < 10 THEN <<Digits[n + 1]>> ELSE IntStr(n \div 10) \o <<Digits[(n % 10) + 1]>>

\* ------------------------------------------------------------- identifiers

\* generate_arbitration_id raises: to_snake_case(case_name) on a non-str
\* (AttributeError) or int(year)
ArbitrationIdRaises(year, case_name) == IsNA(case_name) \/ IntRaises(year)

\* generate_arbitration_id(year, case_name), where it does not raise
generate_arbitration_id(year, case_name) ==
    IntStr(IntOf(year)) \o <<"_">> \o to_snake_case(case_name)

\* What an f-string field {x} formats x as: a str as itself, None as 'None'
Format(x) == IF x = None THEN <<"N","o","n","e">> ELSE x

\* Defect variant of generate_doc_id: the document name is used as scraped,
\* without to_snake_case.
generate_doc_id_Raw(arbitration_id, doc_name) ==
    IF ~Truthy(doc_name) THEN None
    ELSE Format(arbitration_id) \o <<"_">> \o doc_name

\* generate_doc_id(arbitration_id, doc_name), doc_name a str or None
generate_doc_id(arbitration_id, doc_name) ==
    IF ~Truthy(doc_name) THEN None
    ELSE Format(arbitration_id) \o <<"_">> \o to_snake_case(doc_name)

\* ------------------------------------------------------------ detail fields

\* A detail key is a sequence of atoms; the text "detail_" is one atom, so that
\* str.replace('detail_', '') removes every occurrence of it.
DetailPrefix == "detail_"

\* f'detail_{key}'
DetailCol(key) == <<DetailPrefix>> \o key

\* col.replace('detail_', '')
DetailKey(col) == SelectSeq(col, LAMBDA a : a # DetailPrefix)

\* dict.get(key): None when the key is absent
DictGet(d, key) == IF key \in DOMAIN d THEN d[key] ELSE None

\* ----------------------------------------------------------------- dataset

\* The dataset is [rows, dcols]: the rows of the DataFrame in order and the set
\* of its detail_* columns (extract_detail_columns); a row's det maps every
\* detail column to its cell.
extract_detail_columns(d) == d.dcols

RowIdx(d) == DOMAIN d.rows

\* get_existing_doc_ids: set(df['doc_id'].dropna().unique())
get_existing_doc_ids(d) ==
    {d.rows[i].doc_id : i \in {j \in RowIdx(d) : ~IsNA(d.rows[j].doc_id)}}

\* get_existing_case_urls
get_existing_case_urls(d) ==
    {d.rows[i].link_to_italaws_case_page :
        i \in {j \in RowIdx(d) : ~IsNA(d.rows[j].link_to_italaws_case_page)}}

\* existing_by_doc_id.loc[doc_id], and .iloc[0] of it when several rows match
FirstIdx(d, doc_id) ==
    CHOOSE i \in RowIdx(d) :
        /\ d.rows[i].doc_id = doc_id
        /\ \A j \in RowIdx(d) : j < i => d.rows[j].doc_id # doc_id

ExistingRow(d, doc_id) == d.rows[FirstIdx(d, doc_id)]

\* Defect variant of compare_metadata: doc_link is missing from METADATA_FIELDS.
compare_metadata_NoLink(existing_row, new_doc, detail_cols) ==
    \/ NormNA(existing_row.doc_date) # NormNA(new_doc.doc_date)
    \/ NormNA(existing_row.doc_name) # NormNA(new_doc.doc_name)
    \/ \E col \in detail_cols :
          NormNA(existing_row.det[col]) # NormNA(DictGet(new_doc.details, DetailKey(col)))

\* compare_metadata(existing_row, new_doc, detail_cols): TRUE iff the metadata differs
compare_metadata(existing_row, new_doc, detail_cols) ==
    \/ NormNA(existing_row.doc_date) # NormNA(new_doc.doc_date)
    \/ NormNA(existing_row.doc_name) # NormNA(new_doc.doc_name)
    \/ NormNA(existing_row.doc_link) # NormNA(new_doc.doc_link)
    \/ \E col \in detail_cols :
          NormNA(existing_row.det[col]) # NormNA(DictGet(new_doc.details, DetailKey(col)))

\* ------------------------------------------------------- compare_documents

EmptyCmp == [raised |-> FALSE, new |-> <<>>, updated |-> <<>>,
             unchanged |-> <<>>, new_cases |-> <<>>]

\* doc_dict of an existing document
DocDict(doc) ==
    [doc_date |-> doc.date, doc_name |-> doc.doc_name,
     doc_link |-> doc.doc_link, details |-> doc.details]

\* new_doc: the case's fields except 'documents', the document's fields, the identifiers
NewDoc(case, doc, arbitration_id, doc_id) ==
    [link_to_italaws_case_page |-> case.link_to_italaws_case_page,
     year_of_initiation |-> case.year_of_initiation,
     short_case_name |-> case.short_case_name,
     doc_date |-> doc.date, doc_name |-> doc.doc_name, doc_link |-> doc.doc_link,
     details |-> doc.details,
     arbitration_id |-> arbitration_id, doc_id |-> doc_id]

\* Defect variant of the loop body: a document whose identifier this call has
\* already classified is dropped.
CompareOneDoc_Dedup(d, case, arbitration_id, doc, acc) ==
    IF ~Truthy(doc.doc_name) THEN acc
    ELSE LET doc_id == generate_doc_id(arbitration_id, doc.doc_name) IN
         IF ~Truthy(doc_id) THEN acc
         ELSE IF doc_id \in {acc.new[i].doc_id : i \in DOMAIN acc.new}
                    \cup {acc.updated[i].doc_id : i \in DOMAIN acc.updated}
                    \cup {acc.unchanged[i] : i \in DOMAIN acc.unchanged}
         THEN acc
         ELSE IF doc_id \notin get_existing_doc_ids(d)
         THEN [acc EXCEPT !.new = Append(@, NewDoc(case, doc, arbitration_id, doc_id))]
         ELSE IF compare_metadata(ExistingRow(d, doc_id), DocDict(doc),
                                  extract_detail_columns(d))
         THEN [acc EXCEPT !.updated = Append(@, [doc_id |-> doc_id, doc |-> DocDict(doc)])]
         ELSE [acc EXCEPT !.unchanged = Append(@, doc_id)]

\* One pass of the loop over a case's documents
CompareOneDoc(d, case, arbitration_id, doc, acc) ==
    IF ~Truthy(doc.doc_name) THEN acc
    ELSE LET doc_id == generate_doc_id(arbitration_id, doc.doc_name) IN
         IF ~Truthy(doc_id) THEN acc
         ELSE IF doc_id \notin get_existing_doc_ids(d)
         THEN [acc EXCEPT !.new = Append(@, NewDoc(case, doc, arbitration_id, doc_id))]
         ELSE IF compare_metadata(ExistingRow(d, doc_id), DocDict(doc),
                                  extract_detail_columns(d))
         THEN [acc EXCEPT !.updated = Append(@, [doc_id |-> doc_id, doc |-> DocDict(doc)])]
         ELSE [acc EXCEPT !.unchanged = Append(@, doc_id)]

RECURSIVE CompareDocLoop(_, _, _, _, _)
CompareDocLoop(d, case, arbitration_id, i, acc) ==
    IF i > Len(case.documents) THEN acc
    ELSE CompareDocLoop(d, case, arbitration_id, i + 1,
                        CompareOneDoc(d, case, arbitration_id, case.documents[i], acc))

\* `if not year or not case_name: continue`
CaseSkipped(case) ==
    ~YearTruthy(case.year_of_initiation) \/ ~Truthy(case.short_case_name)

\* The loop over the scraped cases; an exception ends the call with no result.
RECURSIVE CompareCaseLoop(_, _, _, _)
CompareCaseLoop(d, cases, i, acc) ==
    IF i > Len(cases) THEN acc
    ELSE LET case == cases[i] IN
         IF CaseSkipped(case) THEN CompareCaseLoop(d, cases, i + 1, acc)
         ELSE IF ArbitrationIdRaises(case.year_of_initiation, case.short_case_name)
         THEN [EmptyCmp EXCEPT !.raised = TRUE]
         ELSE LET arbitration_id ==
                      generate_arbitration_id(case.year_of_initiation, case.short_case_name)
                  url == case.link_to_italaws_case_page
                  acc1 == IF Truthy(url) /\ url \notin get_existing_case_urls(d)
                          THEN [acc EXCEPT !.new_cases = Append(@, url)]
                          ELSE acc
              IN CompareCaseLoop(d, cases, i + 1,
                                 CompareDocLoop(d, case, arbitration_id, 1, acc1))

compare_documents(existing_df, scraped_cases) ==
    CompareCaseLoop(existing_df, scraped_cases, 1, EmptyCmp)

\* ----------------------------------------------------------- merge_updates

\* The body of the loop over updated_docs: df.loc[doc_id, ...] = ... writes every
\* row whose index label is doc_id.
ApplyUpdate(d, u) ==
    IF \A i \in RowIdx(d) : d.rows[i].doc_id # u.doc_id THEN d
    ELSE LET keys == DOMAIN u.doc.details
             cols == d.dcols \cup {DetailCol(key) : key \in keys}
             NewDet(r) ==
                 [c \in cols |->
                    IF r.doc_id = u.doc_id /\ \E key \in keys : DetailCol(key) = c
                    THEN u.doc.details[CHOOSE key \in keys : DetailCol(key) = c]
                    ELSE IF c \in d.dcols THEN r.det[c] ELSE None]
             NewRow(r) ==
                 IF r.doc_id = u.doc_id
                 THEN [r EXCEPT !.doc_date = u.doc.doc_date,
                                !.doc_name = u.doc.doc_name,
                                !.doc_link = u.doc.doc_link,
                                !.det = NewDet(r)]
                 ELSE [r EXCEPT !.det = NewDet(r)]
         IN [rows |-> [i \in RowIdx(d) |-> NewRow(d.rows[i])], dcols |-> cols]

RECURSIVE ApplyUpdates(_, _, _)
ApplyUpdates(d, updated_docs, i) ==
    IF i > Len(updated_docs) THEN d
    ELSE ApplyUpdates(ApplyUpdate(d, updated_docs[i]), updated_docs, i + 1)

\* Defect variant of the new row: the helper column doc_name_clean takes the
\* display name as scraped.
NewRowOf_NoClean(doc, cols) ==
    [doc_id |-> doc.doc_id,
     arbitration_id |-> doc.arbitration_id,
     link_to_italaws_case_page |-> doc.link_to_italaws_case_page,
     year_of_initiation |-> doc.year_of_initiation,
     short_case_name |-> doc.short_case_name,
     doc_date |-> doc.doc_date, doc_name |-> doc.doc_name, doc_link |-> doc.doc_link,
     short_case_name_clean |-> to_snake_case(doc.short_case_name),
     doc_name_clean |-> doc.doc_name,
     page_count |-> None, adjusted_page_count |-> None,
     det |-> [c \in cols |->
                IF \E key \in DOMAIN doc.details : DetailCol(key) = c
                THEN doc.details[CHOOSE key \in DOMAIN doc.details : DetailCol(key) = c]
                ELSE None]]

\* The row built for one new document, over the detail columns cols
NewRowOf(doc, cols) ==
    [doc_id |-> doc.doc_id,
     arbitration_id |-> doc.arbitration_id,
     link_to_italaws_case_page |-> doc.link_to_italaws_case_page,
     year_of_initiation |-> doc.year_of_initiation,
     short_case_name |-> doc.short_case_name,
     doc_date |-> doc.doc_date, doc_name |-> doc.doc_name, doc_link |-> doc.doc_link,
     short_case_name_clean |-> to_snake_case(doc.short_case_name),
     doc_name_clean |-> to_snake_case(doc.doc_name),
     page_count |-> None, adjusted_page_count |-> None,
     det |-> [c \in cols |->
                IF \E key \in DOMAIN doc.details : DetailCol(key) = c
                THEN doc.details[CHOOSE key \in DOMAIN doc.details : DetailCol(key) = c]
                ELSE None]]

\* Defect variant of the append: the new rows are de-duplicated on doc_id
\* (drop_duplicates, first kept) before the concatenation.
AppendNew_Dedup(d, new_docs) ==
    IF new_docs = <<>> THEN d
    ELSE LET kept == SelectSeq([i \in DOMAIN new_docs |-> <<i, new_docs[i]>>],
                               LAMBDA e : \A j \in 1..(e[1] - 1) :
                                              new_docs[j].doc_id # e[2].doc_id)
             docs == [i \in DOMAIN kept |-> kept[i][2]]
             cols == d.dcols \cup
                     UNION {{DetailCol(key) : key \in DOMAIN docs[i].details} :
                            i \in DOMAIN docs}
             Widen(r) == [r EXCEPT !.det = [c \in cols |->
                                              IF c \in d.dcols THEN r.det[c] ELSE None]]
         IN [rows |-> [i \in RowIdx(d) |-> Widen(d.rows[i])]
                      \o [i \in DOMAIN docs |-> NewRowOf(docs[i], cols)],
             dcols |-> cols]

\* Defect variant of the append: pd.concat([new_df, df]), the new rows first.
AppendNew_Front(d, new_docs) ==
    IF new_docs = <<>> THEN d
    ELSE LET cols == d.dcols \cup
                     UNION {{DetailCol(key) : key \in DOMAIN new_docs[i].details} :
                            i \in DOMAIN new_docs}
             Widen(r) == [r EXCEPT !.det = [c \in cols |->
                                              IF c \in d.dcols THEN r.det[c] ELSE None]]
         IN [rows |-> [i \in DOMAIN new_docs |-> NewRowOf(new_docs[i], cols)]
                      \o [i \in RowIdx(d) |-> Widen(d.rows[i])],
             dcols |-> cols]

\* "Append new documents": the column sets are united, missing cells are null,
\* pd.concat([df, new_df], ignore_index=True)
AppendNew(d, new_docs) ==
    IF new_docs = <<>> THEN d
    ELSE LET cols == d.dcols \cup
                     UNION {{DetailCol(key) : key \in DOMAIN new_docs[i].details} :
                            i \in DOMAIN new_docs}
             Widen(r) == [r EXCEPT !.det = [c \in cols |->
                                              IF c \in d.dcols THEN r.det[c] ELSE None]]
         IN [rows |-> [i \in RowIdx(d) |-> Widen(d.rows[i])]
                      \o [i \in DOMAIN new_docs |-> NewRowOf(new_docs[i], cols)],
             dcols |-> cols]

merge_updates(existing_df, comparison_result) ==
    AppendNew(ApplyUpdates(existing_df, comparison_result.updated, 1),
              comparison_result.new)

\* -------------------------------------------------------- get_missing_pdfs

\* f"{doc_id}.pdf", the name of a document's file in documents_dir
PdfExt == <<".","p","d","f">>

PdfName(doc_id) == doc_id \o PdfExt

\* pdf_exists(doc_id): rows without a doc_id count as present; documents_dir is
\* the set of the file names in the directory
pdf_exists(doc_id, dir) == IsNA(doc_id) \/ PdfName(doc_id) \in dir

\* Defect variant of get_missing_pdfs: the doc_link test is left out.
get_missing_pdfs_AnyLink(d, dir) ==
    LET index == SelectSeq([i \in RowIdx(d) |-> i],
                           LAMBDA i : ~pdf_exists(d.rows[i].doc_id, dir))
    IN [index |-> index, rows |-> [k \in DOMAIN index |-> d.rows[index[k]]]]

\* get_missing_pdfs(df, documents_dir): df[mask & df['doc_link'].notna()], the
\* selected rows under their labels in df
get_missing_pdfs(d, dir) ==
    LET index == SelectSeq([i \in RowIdx(d) |-> i],
                           LAMBDA i : /\ ~pdf_exists(d.rows[i].doc_id, dir)
                                      /\ ~IsNA(d.rows[i].doc_link))
    IN [index |-> index, rows |-> [k \in DOMAIN index |-> d.rows[index[k]]]]

\* ------------------------------------------------------------------ inputs

AcmeVState == <<"A","c","m","e"," ","v","."," ","S","t","a","t","e">>
\* The same case as the source lists it elsewhere: other letter case and spacing.
AcmeVStateAlt == <<"A","C","M","E"," "," ","v"," ","S","t","a","t","e">>
Award == <<"A","w","a","r","d">>
\* Another display name of the same document.
AwardAlt == <<"A","W","A","R","D",".">>
Order == <<"O","r","d","e","r">>
\* A display name without any letter or digit.
Dashes == <<"-","-">>

Url1 == <<"u","1">>
Url2 == <<"u","2">>
Date1 == <<"2","0","2","0","-","0","1","-","0","2">>
LinkA == <<"h","t","t","p",":","/","/","x","/","a",".","p","d","f">>
LinkB == <<"h","t","t","p",":","/","/","x","/","b",".","p","d","f">>
ValV == <<"v">>
ValW == <<"w">>
KeyK == <<"K">>
KeyLowerK == <<"k">>
KeyN == <<"N">>
KeyPrefixedK == <<DetailPrefix, "K">>

Y2020 == YInt(2020)

\* A dict with one / two entries
Dict1(k1, v1) == [key \in {k1} |-> v1]
Dict2(k1, v1, k2, v2) == [key \in {k1, k2} |-> IF key = k1 THEN v1 ELSE v2]

\* The document parse_case_document returns for a row of the case page.
BaseDoc == [doc_name |-> Award, date |-> Date1, doc_link |-> LinkA,
            details |-> Dict1(KeyK, ValV)]

\* The documents of the scrapes that vary the document fields: BaseDoc and its
\* one-field variations.
VariedDocs ==
    {BaseDoc,
     [BaseDoc EXCEPT !.doc_link = LinkB],
     [BaseDoc EXCEPT !.date = None],
     [BaseDoc EXCEPT !.details = <<>>],
     [BaseDoc EXCEPT !.details = Dict1(KeyLowerK, ValV)],
     [BaseDoc EXCEPT !.details = Dict2(KeyK, ValV, KeyN, ValW)],
     [BaseDoc EXCEPT !.details = Dict1(KeyPrefixedK, ValV)],
     [BaseDoc EXCEPT !.doc_name = AwardAlt],
     [BaseDoc EXCEPT !.doc_name = Order],
     [BaseDoc EXCEPT !.doc_name = Dashes],
     [BaseDoc EXCEPT !.doc_name = None]}

CaseMeta(url, year, name) ==
    [link_to_italaws_case_page |-> url, year_of_initiation |-> year,
     short_case_name |-> name]

BaseMeta == CaseMeta(Url1, Y2020, AcmeVState)

\* The case fields as DataFrame.to_dict('records') hands them over: a missing cell
\* is float('nan') (or None in an object column), a year is an int, a float or text.
VariedMetas ==
    {BaseMeta,
     CaseMeta(Url2, YFloat(20200), AcmeVStateAlt),
     CaseMeta(Url2, YNone, AcmeVState),
     CaseMeta(Url2, YNaN, AcmeVState),
     CaseMeta(Url2, YStr(<<"n","/","a">>), AcmeVState),
     CaseMeta(Url2, Y2020, None),
     CaseMeta(Url2, Y2020, NaN)}

\* The lists of at most n documents over docs
DocSeqs(docs, n) == UNION {[1..k -> docs] : k \in 0..n}

MakeCase(meta, documents) ==
    [link_to_italaws_case_page |-> meta.link_to_italaws_case_page,
     year_of_initiation |-> meta.year_of_initiation,
     short_case_name |-> meta.short_case_name,
     documents |-> documents]

\* The case lists of at most c cases, each with the documents documents
CaseLists(metas, documents, c) ==
    UNION {{[i \in 1..k |-> MakeCase(ms[i], documents)] : ms \in [1..k -> metas]} :
           k \in 0..c}

\* What scrape_case_documents may return: lists of cases with one document each
\* that vary the case fields, and one case with a list of documents that vary
\* the document fields.
ScrapeInputs ==
    CaseLists(VariedMetas, <<BaseDoc>>, MaxCases)
    \cup {<<MakeCase(BaseMeta, dl)>> : dl \in DocSeqs(VariedDocs, MaxDocs)}

ColK == DetailCol(KeyK)

\* Rows of a dataset file as load_existing_documents reads it (missing cells are NaN).
RowAward ==
    [doc_id |-> generate_doc_id(generate_arbitration_id(Y2020, AcmeVState), Award),
     arbitration_id |-> generate_arbitration_id(Y2020, AcmeVState),
     link_to_italaws_case_page |-> Url1,
     year_of_initiation |-> Y2020,
     short_case_name |-> AcmeVState,
     doc_date |-> Date1, doc_name |-> Award, doc_link |-> LinkA,
     short_case_name_clean |-> to_snake_case(AcmeVState),
     doc_name_clean |-> to_snake_case(Award),
     page_count |-> <<"3">>, adjusted_page_count |-> <<"4">>,
     det |-> [c \in {ColK} |-> ValV]]

\* A second row with the identifier of RowAward.
RowAwardDup ==
    [RowAward EXCEPT !.doc_link = LinkB, !.det = [c \in {ColK} |-> NaN],
                     !.page_count = NaN, !.adjusted_page_count = NaN]

\* The row of a case without documents.
RowNoDoc ==
    [RowAward EXCEPT !.doc_id = NaN, !.doc_date = NaN, !.doc_name = NaN,
                     !.doc_link = NaN, !.doc_name_clean = NaN,
                     !.det = [c \in {ColK} |-> NaN],
                     !.page_count = NaN, !.adjusted_page_count = NaN]

InitRows == {RowAward, RowAwardDup, RowNoDoc}

\* The datasets of at most MaxInitRows different rows
InitDatasets ==
    {[rows |-> rs, dcols |-> {ColK}] :
        rs \in {r \in UNION {[1..k -> InitRows] : k \in 0..MaxInitRows} :
                   \A i, j \in DOMAIN r : r[i] = r[j] => i = j}}

\* No identifier function has been called / no selection has been made
NoCall == [fn |-> "none"]

NoSelection == [index |-> <<>>, rows |-> <<>>]

\* No scan of the case IDs runs and no page is being fetched
NoScan == [pc |-> "none"]

NoFetch == [returned |-> "none"]

\* No conversion run, no dataset file, no stored binary, no download, no
\* interrupt (interrupted is "no" or the step the run was interrupted in)
NoPng == [pc |-> "none"]

NoFile == [rows |-> <<>>, dcols |-> {}]

NoDownloads == [documents |-> <<>>, pending |-> {}, results |-> <<>>]

RestIdle ==
    /\ png = NoPng
    /\ csv_file = NoFile
    /\ pdf_src = <<>>
    /\ downloads = NoDownloads
    /\ interrupted = "no"

OthersIdle ==
    /\ scan = NoScan
    /\ fetch = NoFetch
    /\ RestIdle

\* ----------------------------------------------------------- state machine
\* df       the dataset (data/unctad_document_level_data.csv as loaded/merged)
\* scraped  the case list of the current scrape
\* cmp      the result of the last compare_documents call
\* pc       idle -> scraped -> compared | raised -> merged
\* pass     how many times the current scrape has been reconciled again
\* existing the dataset the last merge started from
\* call, documents_dir, missing: not touched by the reconciliation (see below)

Init ==
    /\ df \in InitDatasets
    /\ scraped = <<>>
    /\ cmp = EmptyCmp
    /\ pc = "idle"
    /\ pass = 0
    /\ existing = df
    /\ call = NoCall
    /\ documents_dir = {}
    /\ missing = NoSelection
    /\ OthersIdle

\* scrape_case_documents returns the case list
Scrape ==
    /\ pc = "idle"
    /\ \E cases \in ScrapeInputs : scraped' = cases
    /\ pc' = "scraped"
    /\ UNCHANGED <<df, cmp, pass, existing, call, documents_dir, missing, others>>

\* comparison = compare_documents(existing_df, scraped_cases)
Compare ==
    /\ pc = "scraped"
    /\ cmp' = compare_documents(df, scraped)
    /\ pc' = IF cmp'.raised THEN "raised" ELSE "compared"
    /\ UNCHANGED <<df, scraped, pass, existing, call, documents_dir, missing, others>>

\* updated_df = merge_updates(existing_df, comparison)
Merge ==
    /\ pc = "compared"
    /\ existing' = df
    /\ df' = merge_updates(df, cmp)
    /\ pc' = "merged"
    /\ UNCHANGED <<scraped, cmp, pass, call, documents_dir, missing, others>>

\* The next run scrapes the same pages and finds them as before.
Rescrape ==
    /\ pc = "merged"
    /\ pass < MaxPass
    /\ pass' = pass + 1
    /\ pc' = "scraped"
    /\ UNCHANGED <<df, scraped, cmp, existing, call, documents_dir, missing, others>>

Next == Scrape \/ Compare \/ Merge \/ Rescrape

Spec == Init /\ [][Next]_vars

\* ---------------------------------------- the identifier functions alone
\* call  the last call of to_snake_case, generate_arbitration_id or
\*       generate_doc_id with its arguments and its outcome, or the derivation
\*       of the identifiers of two documents; the functions keep no state, so
\*       a behaviour holds one call

\* Length of the texts the functions are called with.
MaxLen == 4

\* An upper-case and a lower-case letter, a digit, a blank and the separator
IdAlphabet == {"A", "a", "1", " ", "_"}

Strings(n) == UNION {[1..k -> IdAlphabet] : k \in 0..n}

Text2020 == <<"2","0","2","0">>
TextNA == <<"n","/","a">>
Blank == <<" ">>

\* year_of_initiation as a case record may hold it
IdYears == {Y2020, YFloat(20200), YStr(Text2020), YNone, YNaN, YStr(TextNA)}

\* short_case_name: a text, or the None / NaN of a missing cell
IdCaseNames == Strings(MaxLen) \cup {None, NaN}

\* arbitration_id: an identifier, the empty text or None
IdArbitrationIds == {generate_arbitration_id(Y2020, AcmeVState), <<>>, None}

\* doc_name as parse_case_document returns it: a text or None
IdDocNames == Strings(MaxLen) \cup {None}

\* The inputs of the derivations that are compared with one another
PairYears == {Y2020, YFloat(20200), YStr(Text2020), YInt(2021)}
PairCaseNames == {AcmeVState, AcmeVStateAlt, Order}
PairDocNames == {Award, AwardAlt, Order, Dashes, Blank, <<>>}

PairInputs ==
    {[year |-> y, case_name |-> n, doc_name |-> d] :
        y \in PairYears, n \in PairCaseNames, d \in PairDocNames}

\* doc_id as compare_documents derives it from a case's year and name and a
\* document's name
DeriveDocId(in) ==
    generate_doc_id(generate_arbitration_id(in.year, in.case_name), in.doc_name)

InitIds ==
    /\ call = NoCall
    /\ df = [rows |-> <<>>, dcols |-> {}]
    /\ scraped = <<>>
    /\ cmp = EmptyCmp
    /\ pc = "idle"
    /\ pass = 0
    /\ existing = df
    /\ documents_dir = {}
    /\ missing = NoSelection
    /\ OthersIdle

\* to_snake_case(text), and to_snake_case of its result
CallSnakeCase ==
    /\ call = NoCall
    /\ \E text \in Strings(MaxLen) :
          call' = [fn |-> "to_snake_case", text |-> text,
                   result |-> to_snake_case(text),
                   again |-> to_snake_case(to_snake_case(text))]
    /\ UNCHANGED <<df, scraped, cmp, pc, pass, existing, documents_dir, missing, others>>

\* generate_arbitration_id(year, case_name): it returns result or raises
CallArbitrationId ==
    /\ call = NoCall
    /\ \E year \in IdYears, case_name \in IdCaseNames :
          call' = [fn |-> "generate_arbitration_id",
                   year |-> year, case_name |-> case_name,
                   raised |-> ArbitrationIdRaises(year, case_name),
                   result |-> IF ArbitrationIdRaises(year, case_name) THEN None
                              ELSE generate_arbitration_id(year, case_name)]
    /\ UNCHANGED <<df, scraped, cmp, pc, pass, existing, documents_dir, missing, others>>

\* generate_doc_id(arbitration_id, doc_name)
CallDocId ==
    /\ call = NoCall
    /\ \E arbitration_id \in IdArbitrationIds, doc_name \in IdDocNames :
          call' = [fn |-> "generate_doc_id",
                   arbitration_id |-> arbitration_id, doc_name |-> doc_name,
                   result |-> generate_doc_id(arbitration_id, doc_name)]
    /\ UNCHANGED <<df, scraped, cmp, pc, pass, existing, documents_dir, missing, others>>

\* The identifiers of two documents, derived one after the other
CallDerivePair ==
    /\ call = NoCall
    /\ \E a \in PairInputs, b \in PairInputs :
          call' = [fn |-> "derive_pair", a |-> a, b |-> b,
                   a_id |-> DeriveDocId(a), b_id |-> DeriveDocId(b)]
    /\ UNCHANGED <<df, scraped, cmp, pc, pass, existing, documents_dir, missing, others>>

NextIds == CallSnakeCase \/ CallArbitrationId \/ CallDocId \/ CallDerivePair

SpecIds == InitIds /\ [][NextIds]_vars

\* ------------------------------------------------- the download selection
\* df             the merged dataset handed to get_missing_pdfs
\* documents_dir  the names of the files in the documents directory
\* missing        the rows get_missing_pdfs returned
\* pc             idle -> selected

\* Rows of the dataset handed to one get_missing_pdfs call.
MaxPdfRows == 3

\* The row of a second document of the case, and that document without a link.
RowOrder ==
    [RowAward EXCEPT
        !.doc_id = generate_doc_id(generate_arbitration_id(Y2020, AcmeVState), Order),
        !.doc_name = Order, !.doc_name_clean = to_snake_case(Order),
        !.doc_link = LinkB, !.page_count = NaN, !.adjusted_page_count = NaN]

RowOrderUnlinked == [RowOrder EXCEPT !.doc_link = NaN]

\* The row of a document of a case without a year: run_full_pipeline gives it
\* no arbitration_id and no doc_id.
RowNoId ==
    [RowAward EXCEPT !.doc_id = NaN, !.arbitration_id = NaN,
                     !.year_of_initiation = YNaN,
                     !.page_count = NaN, !.adjusted_page_count = NaN]

PdfRows == {RowAward, RowAwardDup, RowOrder, RowOrderUnlinked, RowNoDoc, RowNoId}

PdfDatasets ==
    {[rows |-> rs, dcols |-> {ColK}] :
        rs \in UNION {[1..k -> PdfRows] : k \in 0..MaxPdfRows}}

\* A file of the directory that belongs to no row
OtherPdf == PdfName(<<"x">>)

\* What the documents directory may hold
PdfDirs == SUBSET {PdfName(RowAward.doc_id), PdfName(RowOrder.doc_id), OtherPdf}

InitPdfs ==
    /\ df \in PdfDatasets
    /\ documents_dir \in PdfDirs
    /\ missing = NoSelection
    /\ OthersIdle
    /\ pc = "idle"
    /\ scraped = <<>>
    /\ cmp = EmptyCmp
    /\ pass = 0
    /\ existing = df
    /\ call = NoCall

\* missing_pdfs = get_missing_pdfs(updated_df)
GetMissingPdfs ==
    /\ pc = "idle"
    /\ missing' = get_missing_pdfs(df, documents_dir)
    /\ pc' = "selected"
    /\ UNCHANGED <<df, documents_dir, scraped, cmp, pass, existing, call, others>>

NextPdfs == GetMissingPdfs

SpecPdfs == InitPdfs /\ [][NextPdfs]_vars

\* ------------------------------------------------------------ properties

\* The identifiers a list of new_doc / (doc_id, updates) entries holds
EntryIds(entries) == {entries[i].doc_id : i \in DOMAIN entries}

\* How many entries of a list satisfy P
CountIdx(list, P(_)) == Cardinality({i \in DOMAIN list : P(list[i])})

\* A year that can be read as an integer, a case name that is a non-empty text
UsableYear(y) ==
    \/ y.k \in {"int", "float"}
    \/ y.k = "str" /\ y.s # <<>> /\ \A i \in DOMAIN y.s : y.s[i] \in DigitSet

UsableCase(case) ==
    /\ UsableYear(case.year_of_initiation)
    /\ ~IsNA(case.short_case_name)
    /\ case.short_case_name # <<>>

NamedDoc(doc) == ~IsNA(doc.doc_name) /\ doc.doc_name # <<>>

\* The scraped documents that have a name and belong to a usable case, as
\* <<case index, document index>>
CountedDocs(cases) ==
    {p \in UNION {{<<c, i>> : i \in DOMAIN cases[c].documents} : c \in DOMAIN cases} :
        UsableCase(cases[p[1]]) /\ NamedDoc(cases[p[1]].documents[p[2]])}

\* "{int(year)}_{normalize(case_name)}_{normalize(doc_name)}"
DerivedId(case, doc) ==
    IntStr(IntOf(case.year_of_initiation)) \o <<"_">> \o to_snake_case(case.short_case_name)
        \o <<"_">> \o to_snake_case(doc.doc_name)

IdOfPos(cases, p) == DerivedId(cases[p[1]], cases[p[1]].documents[p[2]])

\* The derived identifier of every counted document
DerivedIds(cases) == [p \in CountedDocs(cases) |-> IdOfPos(cases, p)]

\* Every non-null doc_id of a dataset occurs in exactly one row
UniqueIds(d) ==
    \A i, j \in RowIdx(d) :
        (~IsNA(d.rows[i].doc_id) /\ d.rows[i].doc_id = d.rows[j].doc_id) => i = j

\* C1: Merge idempotence. Reconciling the same scraped case list against the
\* dataset the first reconciliation produced yields no new and no updated
\* document.
C1_MergeIdempotence ==
    (pc = "compared" /\ pass >= 1) => (cmp.new = <<>> /\ cmp.updated = <<>>)

\* C2: Partition exclusivity. In the result of one compare_documents call no
\* document identifier occurs in more than one of new, updated and unchanged.
C2_PartitionExclusive ==
    pc = "compared" =>
        /\ EntryIds(cmp.new) \cap EntryIds(cmp.updated) = {}
        /\ EntryIds(cmp.new) \cap Range(cmp.unchanged) = {}
        /\ EntryIds(cmp.updated) \cap Range(cmp.unchanged) = {}

\* C3: Partition totality. For one compare_documents call, len(new) +
\* len(updated) + len(unchanged) is the number of scraped documents that have a
\* non-empty name and belong to a case with a usable year and case name, and
\* every such document is counted exactly once: each identifier occurs in the
\* three lists together as often as scraped documents derive it.
C3_PartitionTotality ==
    pc = "compared" =>
        LET ids == DerivedIds(scraped) IN
        /\ Len(cmp.new) + Len(cmp.updated) + Len(cmp.unchanged)
               = Cardinality(DOMAIN ids)
        /\ \A p \in DOMAIN ids :
              CountIdx(cmp.new, LAMBDA e : e.doc_id = ids[p])
                + CountIdx(cmp.updated, LAMBDA e : e.doc_id = ids[p])
                + CountIdx(cmp.unchanged, LAMBDA e : e = ids[p])
              = Cardinality({q \in DOMAIN ids : ids[q] = ids[p]})

\* C3 witness: a compared scrape that holds a skipped case with a document, a
\* document without a name or two documents of one identifier, and a counted
\* document.
C3_Witness ==
    /\ pc = "compared"
    /\ CountedDocs(scraped) # {}
    /\ \E c \in DOMAIN scraped :
          ~UsableCase(scraped[c]) /\ scraped[c].documents # <<>>

\* C4: Merge row-count law. The table merge_updates returns has
\* len(existing) + len(new) rows; applying the updated entries adds or removes
\* no row.
C4_RowCount ==
    pc = "merged" => Len(df.rows) = Len(existing.rows) + Len(cmp.new)

\* C4 witness: a merge over a dataset with a duplicate identifier, in which an
\* update of that identifier introduced a detail column and a row was appended.
C4_Witness ==
    /\ pc = "merged"
    /\ ~UniqueIds(existing)
    /\ cmp.updated # <<>>
    /\ df.dcols # existing.dcols
    /\ cmp.new # <<>>

\* C5: The document identifier is a unique key. If every non-null doc_id of the
\* dataset a reconciliation starts from occurs in exactly one row, the same
\* holds of the merged dataset.
C5_UniqueKey ==
    pc = "merged" => (UniqueIds(existing) => UniqueIds(df))

\* C6: No row is deleted by reconciliation. Every row of the dataset before a
\* merge is present after it, at the same position and with the same doc_id.
C6_NoRowDeleted ==
    pc = "merged" =>
        /\ Len(df.rows) >= Len(existing.rows)
        /\ \A i \in RowIdx(existing) : df.rows[i].doc_id = existing.rows[i].doc_id

\* C6 witness: a merge that appended a row, over a dataset of two rows one of
\* which is of a document that the scrape does not hold.
C6_Witness ==
    /\ pc = "merged"
    /\ cmp.new # <<>>
    /\ Len(existing.rows) > 1
    /\ \E i \in RowIdx(existing) :
          /\ ~IsNA(existing.rows[i].doc_id)
          /\ existing.rows[i].doc_id \notin
                {IdOfPos(scraped, p) : p \in CountedDocs(scraped)}

\* The detail key a column stands for: the column name without its prefix
ColumnKey(col) == Tail(col)

\* A row with its tracked cells' missing values normalised and its detail cells
\* cut to the columns cols
NormRow(r, cols) ==
    [r EXCEPT !.doc_date = NormNA(r.doc_date),
              !.doc_name = NormNA(r.doc_name),
              !.doc_link = NormNA(r.doc_link),
              !.det = [c \in cols |-> NormNA(r.det[c])]]

\* The scraped value of a tracked field
ScrapedField(doc, field) ==
    CASE field = "doc_date" -> doc.date
      [] field = "doc_name" -> doc.doc_name
      [] field = "doc_link" -> doc.doc_link

\* The scraped document and the row agree on every detail: every column of the
\* dataset holds the scraped value of its key (null when the key is absent),
\* and every scraped key has a column
SameDetails(row, doc, cols) ==
    /\ \A col \in cols :
          NormNA(row.det[col]) = NormNA(DictGet(doc.details, ColumnKey(col)))
    /\ \A key \in DOMAIN doc.details : DetailCol(key) \in cols

\* The scraped document differs from the row in the tracked field `field` only
DiffersOnlyIn(row, doc, field, cols) ==
    /\ \A f \in {"doc_date", "doc_name", "doc_link"} :
          (NormNA(row[f]) = NormNA(ScrapedField(doc, f))) <=> (f # field)
    /\ SameDetails(row, doc, cols)

\* The case of C7 at the scraped document p: its identifier is in exactly one row
\* of the dataset, no other scraped document derives it, and the document
\* differs from that row in `field` only
C7_Case(ids, p, field) ==
    LET doc == scraped[p[1]].documents[p[2]]
    IN /\ Cardinality({i \in RowIdx(existing) : existing.rows[i].doc_id = ids[p]}) = 1
       /\ \A q \in DOMAIN ids : ids[q] = ids[p] => q = p
       /\ DiffersOnlyIn(ExistingRow(existing, ids[p]), doc, field, existing.dcols)

C8_ScenarioB ==
    /\ pc = "compared" =>
          \A p \in CountedDocs(scraped) :
              LET id == IdOfPos(scraped, p)
                  doc == scraped[p[1]].documents[p[2]]
              IN (/\ id \in get_existing_doc_ids(df)
                  /\ \A f \in {"doc_date", "doc_name", "doc_link"} :
                        NormNA(ExistingRow(df, id)[f]) = NormNA(ScrapedField(doc, f))
                  /\ \A col \in df.dcols :
                        NormNA(ExistingRow(df, id).det[col])
                            = NormNA(DictGet(doc.details, ColumnKey(col))))
                 => /\ id \in Range(cmp.unchanged)
                    /\ \A k \in DOMAIN cmp.updated :
                          cmp.updated[k] # [doc_id |-> id, doc |-> DocDict(doc)]
    /\ (pc = "merged" /\ cmp.new = <<>> /\ cmp.updated = <<>>) => df = existing

\* The text "2020_acme_v_state_award"
Id2020AcmeVStateAward ==
    <<"2","0","2","0","_","a","c","m","e","_","v","_","s","t","a","t","e",
      "_","a","w","a","r","d">>

\* C9: Scenario A generalised. A scraped document with a name, in a case with a
\* usable year and name, whose derived identifier is absent from the existing
\* dataset is classified new and nothing else, its entry carries that
\* identifier and the case-level fields, and it adds exactly one row to the
\* merged dataset; year 2020, case "Acme v. State", document "Award" give
\* "2020_acme_v_state_award".
C9_ScenarioA ==
    pc = "merged" =>
        /\ LET ids == DerivedIds(scraped) IN
           \A p \in DOMAIN ids :
              LET case == scraped[p[1]]
                  doc == case.documents[p[2]]
                  id == ids[p]
                  n == Cardinality({q \in DOMAIN ids : ids[q] = id})
              IN id \notin get_existing_doc_ids(existing) =>
                    /\ CountIdx(cmp.new, LAMBDA e : e.doc_id = id) = n
                    /\ id \notin EntryIds(cmp.updated)
                    /\ id \notin Range(cmp.unchanged)
                    /\ \E k \in DOMAIN cmp.new :
                          cmp.new[k] =
                             [link_to_italaws_case_page |-> case.link_to_italaws_case_page,
                              year_of_initiation |-> case.year_of_initiation,
                              short_case_name |-> case.short_case_name,
                              doc_date |-> doc.date, doc_name |-> doc.doc_name,
                              doc_link |-> doc.doc_link, details |-> doc.details,
                              arbitration_id |->
                                  IntStr(IntOf(case.year_of_initiation)) \o <<"_">>
                                      \o to_snake_case(case.short_case_name),
                              doc_id |-> id]
                    /\ CountIdx(df.rows, LAMBDA r : r.doc_id = id) = n
        /\ (scraped = <<MakeCase(BaseMeta, <<BaseDoc>>)>> /\ existing.rows = <<>>) =>
              /\ Len(df.rows) = 1
              /\ df.rows[1].doc_id = Id2020AcmeVStateAward
              /\ cmp.updated = <<>>

\* C9 witness: Scenario A, merged into a dataset with zero rows.
C9_Witness ==
    /\ pc = "merged"
    /\ existing.rows = <<>>
    /\ scraped = <<MakeCase(BaseMeta, <<BaseDoc>>)>>
    /\ Len(cmp.new) = 1

\* The URLs compare_documents reports as new cases when it skips the cases
\* lacking a usable year or name
RECURSIVE ExpectedNewCases(_, _)
ExpectedNewCases(d, cases) ==
    IF cases = <<>> THEN <<>>
    ELSE LET case == Head(cases)
             url == case.link_to_italaws_case_page
         IN (IF UsableCase(case) /\ ~IsNA(url) /\ url # <<>>
                  /\ url \notin get_existing_case_urls(d)
             THEN <<url>> ELSE <<>>) \o ExpectedNewCases(d, Tail(cases))

\* C10: A scraped case lacking a usable year (absent, null, NaN, not parseable
\* as an integer) or lacking a case name is skipped without raising: none of
\* its documents appears in new, updated or unchanged, its URL does not appear
\* in new_cases, and the other cases of the scrape are processed.
C10_SkipUnusableCase ==
    /\ pc # "raised"
    /\ pc = "compared" =>
          /\ cmp.new_cases = ExpectedNewCases(df, scraped)
          /\ Len(cmp.new) + Len(cmp.updated) + Len(cmp.unchanged)
                = Cardinality(CountedDocs(scraped))
          /\ EntryIds(cmp.new) \cup EntryIds(cmp.updated) \cup Range(cmp.unchanged)
                = {IdOfPos(scraped, p) : p \in CountedDocs(scraped)}

\* C11: generate_arbitration_id never raises: when the year or the case name
\* is null, or the year cannot be read as an integer, it returns None;
\* otherwise it returns "{int(year)}_{normalize(case_name)}".
C11_ArbitrationIdNull ==
    call.fn = "generate_arbitration_id" =>
        /\ ~call.raised
        /\ IF IsNA(call.case_name) \/ ~UsableYear(call.year)
           THEN call.result = None
           ELSE call.result = IntStr(IntOf(call.year)) \o <<"_">>
                                  \o to_snake_case(call.case_name)

\* A null or empty input of generate_doc_id
NullOrEmpty(x) == IsNA(x) \/ x = <<>>

\* C12: generate_doc_id returns None whenever the case identifier or the
\* document name is null or empty; otherwise it returns
\* "{case_identifier}_{normalize(doc_name)}".
C12_DocIdNull ==
    call.fn = "generate_doc_id" =>
        IF NullOrEmpty(call.arbitration_id) \/ NullOrEmpty(call.doc_name)
        THEN call.result = None
        ELSE call.result = call.arbitration_id \o <<"_">> \o to_snake_case(call.doc_name)

\* The identifiers of one compare_documents result
ResultIds(c) == EntryIds(c.new) \cup EntryIds(c.updated) \cup Range(c.unchanged)

\* The counted documents whose name has a non-empty normalized token
TokenDocs(cases) ==
    {p \in CountedDocs(cases) :
        to_snake_case(cases[p[1]].documents[p[2]].doc_name) # <<>>}

\* C13: A document name whose normalized token is empty yields no identifier:
\* no identifier of a compare_documents result ends in an empty token, and the
\* documents with such a name are in none of new, updated and unchanged.
C13_EmptyToken ==
    pc = "compared" =>
        /\ \A id \in ResultIds(cmp) : id[Len(id)] # "_"
        /\ Len(cmp.new) + Len(cmp.updated) + Len(cmp.unchanged)
              = Cardinality(TokenDocs(scraped))

\* A token of lower-case letters, digits and single separators, without a
\* leading, trailing or doubled separator
WellFormedToken(t) ==
    /\ \A i \in DOMAIN t : t[i] \in LowerSet \cup DigitSet \cup {"_"}
    /\ t # <<>> => (t[1] # "_" /\ t[Len(t)] # "_")
    /\ \A i \in 1..(Len(t) - 1) : ~(t[i] = "_" /\ t[i + 1] = "_")

\* C14: to_snake_case is idempotent, and its result is a well-formed token.
C14_SnakeCaseIdempotent ==
    call.fn = "to_snake_case" =>
        /\ call.again = call.result
        /\ WellFormedToken(call.result)

\* C14 witness: a call on a text with an upper-case letter and a leading
\* separator, whose result holds a separator that stands for a longer run.
C14_Witness ==
    /\ call.fn = "to_snake_case"
    /\ \E i \in DOMAIN call.text : call.text[i] \in UpperSet
    /\ Len(call.text) = MaxLen
    /\ \E i \in 1..(Len(call.text) - 1) :
          ~IsAlnum(LowerChar(call.text[i])) /\ ~IsAlnum(LowerChar(call.text[i + 1]))
    /\ \E i \in DOMAIN call.result : call.result[i] = "_"

\* A letter or digit of either case
IsLetterOrDigit(c) == c \in UpperSet \cup LowerSet \cup DigitSet

\* The words of a text: its maximal runs of letters and digits, letter case
\* folded.  Two texts with the same words differ only in letter case, in the
\* runs between the words and in what leads and trails.
RECURSIVE Words(_, _, _)
Words(text, i, cur) ==
    IF i > Len(text) THEN (IF cur = <<>> THEN <<>> ELSE <<cur>>)
    ELSE IF IsLetterOrDigit(text[i])
    THEN Words(text, i + 1, Append(cur, LowerChar(text[i])))
    ELSE (IF cur = <<>> THEN <<>> ELSE <<cur>>) \o Words(text, i + 1, <<>>)

\* The integer a year stands for: of an int, of a float without fraction, of
\* a text of digits
YearValue(y) ==
    CASE y.k = "int" -> y.n
      [] y.k = "float" -> y.n \div 10
      [] y.k = "str" -> ParseNat(y.s, 0)

SameYear(y1, y2) ==
    /\ UsableYear(y1) /\ UsableYear(y2)
    /\ y1.k = "float" => y1.n % 10 = 0
    /\ y2.k = "float" => y2.n % 10 = 0
    /\ YearValue(y1) = YearValue(y2)

\* C15: Identifier determinism. Two derivations whose inputs are equal, or
\* differ only in letter case, in the non-alphanumeric runs of the names, in
\* leading or trailing non-alphanumerics or in the representation of the same
\* integer year, yield the identical document identifier.
C15_Determinism ==
    (/\ call.fn = "derive_pair"
     /\ SameYear(call.a.year, call.b.year)
     /\ Words(call.a.case_name, 1, <<>>) = Words(call.b.case_name, 1, <<>>)
     /\ Words(call.a.doc_name, 1, <<>>) = Words(call.b.doc_name, 1, <<>>))
    => call.a_id = call.b_id

\* The tracked fields of a scraped document equal those of a row
SameCore(row, doc) ==
    \A f \in {"doc_date", "doc_name", "doc_link"} :
        NormNA(row[f]) = NormNA(ScrapedField(doc, f))

\* The cells of a merged row in the columns the dataset had before the merge
OldCells(r, cols) == [r EXCEPT !.det = [c \in cols |-> r.det[c]]]

\* C16: First-match tie-break. When several rows of the dataset hold one
\* document identifier, compare_documents compares a scraped document with the
\* first of them only (a document equal to the first row is not updated), and
\* merge_updates leaves every later row of that identifier as it was.
C16_FirstMatch ==
    /\ pc = "compared" =>
          \A p \in CountedDocs(scraped) :
              LET id == IdOfPos(scraped, p)
                  doc == scraped[p[1]].documents[p[2]]
              IN (/\ Cardinality({i \in RowIdx(df) : df.rows[i].doc_id = id}) > 1
                  /\ SameCore(ExistingRow(df, id), doc)
                  /\ SameDetails(ExistingRow(df, id), doc, df.dcols))
                 => \A k \in DOMAIN cmp.updated :
                       cmp.updated[k] # [doc_id |-> id, doc |-> DocDict(doc)]
    /\ pc = "merged" =>
          \A j \in RowIdx(existing) :
              (/\ ~IsNA(existing.rows[j].doc_id)
               /\ \E i \in 1..(j - 1) : existing.rows[i].doc_id = existing.rows[j].doc_id)
              => OldCells(df.rows[j], existing.dcols) = existing.rows[j]

\* dict lookup that ignores the letter case of the key
GetIgnoringCase(d, key) ==
    IF \E k \in DOMAIN d : Lower(k) = Lower(key)
    THEN d[CHOOSE k \in DOMAIN d : Lower(k) = Lower(key)]
    ELSE None

\* C17: Detail keys are matched without regard to letter case. A scraped
\* document whose identifier exists, whose date, name and link equal the
\* existing row and whose details hold, for every detail column, the row's
\* value under a key equal to the column's key up to letter case, is not
\* classified updated.
C17_CaseInsensitiveKeys ==
    pc = "compared" =>
        \A p \in CountedDocs(scraped) :
            LET id == IdOfPos(scraped, p)
                doc == scraped[p[1]].documents[p[2]]
            IN (/\ id \in get_existing_doc_ids(df)
                /\ SameCore(ExistingRow(df, id), doc)
                /\ \A col \in df.dcols :
                      NormNA(ExistingRow(df, id).det[col])
                          = NormNA(GetIgnoringCase(doc.details, ColumnKey(col))))
               => \A k \in DOMAIN cmp.updated :
                     cmp.updated[k] # [doc_id |-> id, doc |-> DocDict(doc)]

\* The scraped detail keys of a document that have no column in d
NewKeys(d, details) == {key \in DOMAIN details : DetailCol(key) \notin d.dcols}

\* C18: Detail-key asymmetry. A scraped detail key without a column in the
\* dataset is no difference for compare_documents: a document that equals its
\* row in date, name, link and every detail column is not updated whatever such
\* keys it carries.  For an updated document merge_updates writes the key: the
\* column exists after the merge, holds the scraped value in the document's
\* row and null in every other row of the dataset.
C18_DetailKeyAsymmetry ==
    /\ pc = "compared" =>
          \A p \in CountedDocs(scraped) :
              LET id == IdOfPos(scraped, p)
                  doc == scraped[p[1]].documents[p[2]]
              IN (/\ id \in get_existing_doc_ids(df)
                  /\ NewKeys(df, doc.details) # {}
                  /\ SameCore(ExistingRow(df, id), doc)
                  /\ \A col \in df.dcols :
                        NormNA(ExistingRow(df, id).det[col])
                            = NormNA(DictGet(doc.details, ColumnKey(col))))
                 => \A k \in DOMAIN cmp.updated :
                       cmp.updated[k] # [doc_id |-> id, doc |-> DocDict(doc)]
    /\ pc = "merged" =>
          \A k \in DOMAIN cmp.updated :
              \A key \in NewKeys(existing, cmp.updated[k].doc.details) :
                  LET col == DetailCol(key)
                      i == FirstIdx(existing, cmp.updated[k].doc_id)
                  IN /\ col \in df.dcols
                     /\ \E m \in DOMAIN cmp.updated :
                           /\ cmp.updated[m].doc_id = cmp.updated[k].doc_id
                           /\ key \in DOMAIN cmp.updated[m].doc.details
                           /\ df.rows[i].det[col] = cmp.updated[m].doc.details[key]
                     /\ \A j \in RowIdx(existing) : j # i => IsNA(df.rows[j].det[col])

\* The detail columns the entries of a list carry, details(e) their details
ColumnsOf(list, details(_)) ==
    UNION {{DetailCol(key) : key \in DOMAIN details(list[k])} : k \in DOMAIN list}

\* C19: Appending new documents. The row merge_updates appends for the k-th
\* new document has null page_count and adjusted_page_count, the normalized
\* names in short_case_name_clean and doc_name_clean, the document's fields
\* and details, and null in every detail column the document lacks; the
\* merged detail columns are those of the dataset (with the keys the updates
\* wrote) united with those of the new documents; the existing rows hold null
\* in the columns only the new rows bring, and the rows of documents that are
\* not updated keep every cell.
C19_AppendNew ==
    pc = "merged" =>
        LET n == Len(existing.rows)
            newcols == ColumnsOf(cmp.new, LAMBDA e : e.details)
            updcols == ColumnsOf(cmp.updated, LAMBDA e : e.doc.details)
        IN /\ \A k \in DOMAIN cmp.new :
                 LET r == df.rows[n + k]
                     doc == cmp.new[k]
                 IN /\ IsNA(r.page_count) /\ IsNA(r.adjusted_page_count)
                    /\ r.short_case_name_clean = to_snake_case(doc.short_case_name)
                    /\ r.doc_name_clean = to_snake_case(doc.doc_name)
                    /\ r.doc_id = doc.doc_id /\ r.arbitration_id = doc.arbitration_id
                    /\ r.doc_date = doc.doc_date /\ r.doc_name = doc.doc_name
                    /\ r.doc_link = doc.doc_link
                    /\ r.short_case_name = doc.short_case_name
                    /\ r.year_of_initiation = doc.year_of_initiation
                    /\ r.link_to_italaws_case_page = doc.link_to_italaws_case_page
                    /\ \A c \in df.dcols :
                          IF \E key \in DOMAIN doc.details : DetailCol(key) = c
                          THEN \E key \in DOMAIN doc.details :
                                  DetailCol(key) = c /\ r.det[c] = doc.details[key]
                          ELSE IsNA(r.det[c])
           /\ df.dcols = existing.dcols \cup updcols \cup newcols
           /\ \A i \in 1..n :
                 /\ \A c \in df.dcols \ (existing.dcols \cup updcols) :
                       IsNA(df.rows[i].det[c])
                 /\ existing.rows[i].doc_id \notin EntryIds(cmp.updated)
                       => OldCells(df.rows[i], existing.dcols) = existing.rows[i]

\* C19 witness: a merge that appended two rows to a dataset with a row, one
\* bringing a detail column the dataset lacked and one lacking a column it had.
C19_Witness ==
    /\ pc = "merged"
    /\ existing.rows # <<>>
    /\ Len(cmp.new) = 2
    /\ df.dcols # existing.dcols
    /\ \E k \in DOMAIN cmp.new : IsNA(df.rows[Len(existing.rows) + k].det[ColK])

\* Row i of d has a link and an identifier without a file in dir
LinkedWithoutFile(d, dir, i) ==
    /\ ~IsNA(d.rows[i].doc_link)
    /\ ~IsNA(d.rows[i].doc_id)
    /\ PdfName(d.rows[i].doc_id) \notin dir

\* Row i of d has a link and no file named after its doc_id in dir, a row
\* without a doc_id having no such file
LinkedNoFileOfId(d, dir, i) ==
    /\ ~IsNA(d.rows[i].doc_link)
    /\ IsNA(d.rows[i].doc_id) \/ PdfName(d.rows[i].doc_id) \notin dir

\* C20 as stated: get_missing_pdfs returns exactly the rows whose doc_link is
\* non-null and whose identifier has no file <identifier>.pdf in the store.
C20_AsStated ==
    pc = "selected" =>
        \A i \in RowIdx(df) :
            (\E k \in DOMAIN missing.index : missing.index[k] = i)
                <=> LinkedNoFileOfId(df, documents_dir, i)

\* C20 amended: Missing-binary selector. get_missing_pdfs returns exactly the
\* rows whose doc_link is non-null, whose doc_id is non-null and whose
\* identifier has no file <identifier>.pdf in the store, each once and in the
\* dataset's order; of 3 rows of which only row 2 has a link and lacks a file
\* it returns row 2; and the call changes neither the dataset nor the store.
C20_MissingPdfs ==
    /\ [](pc = "selected" =>
            /\ \A i \in RowIdx(df) :
                  (\E k \in DOMAIN missing.index : missing.index[k] = i)
                      <=> LinkedWithoutFile(df, documents_dir, i)
            /\ \A k, m \in DOMAIN missing.index :
                  k < m => missing.index[k] < missing.index[m]
            /\ DOMAIN missing.rows = DOMAIN missing.index
            /\ \A k \in DOMAIN missing.index :
                  /\ missing.index[k] \in RowIdx(df)
                  /\ missing.rows[k] = df.rows[missing.index[k]]
            /\ (/\ Len(df.rows) = 3
                /\ \A i \in RowIdx(df) : LinkedWithoutFile(df, documents_dir, i) <=> i = 2)
               => (missing.index = <<2>> /\ missing.rows = <<df.rows[2]>>))
    /\ [][pc' = "selected" => (df' = df /\ documents_dir' = documents_dir)]_vars

\* C20 witness: a selection from 3 rows with identifiers and links, of which
\* rows 1 and 3 have their file in a store of several files and row 2 has none.
C20_Witness ==
    /\ pc = "selected"
    /\ Len(df.rows) = 3
    /\ \A i \in RowIdx(df) : ~IsNA(df.rows[i].doc_id) /\ ~IsNA(df.rows[i].doc_link)
    /\ Cardinality(documents_dir) > 1
    /\ PdfName(df.rows[1].doc_id) \in documents_dir
    /\ PdfName(df.rows[3].doc_id) \in documents_dir
    /\ missing.index = <<2>>

\* The updated entries that are the last of their identifier: what they carry
\* is written last
LastUpdates(c) ==
    {k \in DOMAIN c.updated :
        \A m \in DOMAIN c.updated : c.updated[m].doc_id = c.updated[k].doc_id => m <= k}

\* C25: After merge_updates the row of every updated document holds the
\* scraped doc_date, doc_name and doc_link and, in every detail column, the
\* scraped value of the column's key, null where the scraped document has no
\* such detail: the scraped document and its merged row differ in no tracked
\* field.
C25_UpdatedRowHoldsScrape ==
    pc = "merged" =>
        \A k \in LastUpdates(cmp) :
            LET u == cmp.updated[k]
                row == ExistingRow(df, u.doc_id)
            IN /\ NormNA(row.doc_date) = NormNA(u.doc.doc_date)
               /\ NormNA(row.doc_name) = NormNA(u.doc.doc_name)
               /\ NormNA(row.doc_link) = NormNA(u.doc.doc_link)
               /\ \A col \in df.dcols :
                     NormNA(row.det[col]) = NormNA(DictGet(u.doc.details, ColumnKey(col)))

\* ------------------------------------------------------- run_full_pipeline
\* The first full run: the scraped case list is flattened to one row per
\* document, the identifiers are derived column by column, and the dataset is
\* written to the file that every later run loads.

\* A display name that is the empty text (a link without text)
EmptyName == <<>>

FullDocs == VariedDocs \cup {[BaseDoc EXCEPT !.doc_name = EmptyName]}

\* What attach_documents_to_data_list returns: as ScrapeInputs, with cases
\* without documents and documents with an empty name.
FullInputs ==
    CaseLists(VariedMetas, <<BaseDoc>>, MaxCases)
    \cup {<<MakeCase(BaseMeta, dl)>> : dl \in DocSeqs(FullDocs, MaxDocs)}

\* The rows flatten_to_document_level builds for one entry: one per document,
\* or one without document fields
FlatRowsOf(entry) ==
    IF entry.documents # <<>>
    THEN [i \in DOMAIN entry.documents |->
            [link_to_italaws_case_page |-> entry.link_to_italaws_case_page,
             year_of_initiation |-> entry.year_of_initiation,
             short_case_name |-> entry.short_case_name,
             doc_date |-> entry.documents[i].date,
             doc_name |-> entry.documents[i].doc_name,
             doc_link |-> entry.documents[i].doc_link,
             details |-> entry.documents[i].details]]
    ELSE <<[link_to_italaws_case_page |-> entry.link_to_italaws_case_page,
            year_of_initiation |-> entry.year_of_initiation,
            short_case_name |-> entry.short_case_name,
            doc_date |-> None, doc_name |-> None, doc_link |-> None,
            details |-> <<>>]>>

RECURSIVE flattened_rows(_, _)
flattened_rows(data_list, i) ==
    IF i > Len(data_list) THEN <<>>
    ELSE FlatRowsOf(data_list[i]) \o flattened_rows(data_list, i + 1)

\* pd.notna of a year cell
YearNotNA(y) == y.k \notin {"nan", "none"}

\* lambda x: to_snake_case(x) if pd.notna(x) else None
clean_or_none(x) == IF IsNA(x) THEN None ELSE to_snake_case(x)

\* The arbitration_id lambda raises: int(year) on a year that is no number
row_arbitration_id_raises(year, name_clean) ==
    YearNotNA(year) /\ ~IsNA(name_clean) /\ IntRaises(year)

\* f"{int(year)}_{short_case_name_clean}" if both are not null, else None
row_arbitration_id(year, name_clean) ==
    IF YearNotNA(year) /\ ~IsNA(name_clean)
    THEN IntStr(IntOf(year)) \o <<"_">> \o name_clean
    ELSE None

\* f"{arbitration_id}_{doc_name_clean}" if both are not null, else None
row_doc_id(arbitration_id, name_clean) ==
    IF ~IsNA(arbitration_id) /\ ~IsNA(name_clean)
    THEN arbitration_id \o <<"_">> \o name_clean
    ELSE None

\* flatten_to_document_level(data_list) with the identifier columns of
\* run_full_pipeline: the DataFrame has the detail columns of all rows, a row
\* without a key holds NaN there
flatten_to_document_level(data_list) ==
    LET flat == flattened_rows(data_list, 1)
        cols == UNION {{DetailCol(key) : key \in DOMAIN flat[i].details} : i \in DOMAIN flat}
        Row(f) ==
            LET case_clean == clean_or_none(f.short_case_name)
                arb == row_arbitration_id(f.year_of_initiation, case_clean)
                doc_clean == clean_or_none(f.doc_name)
            IN [doc_id |-> row_doc_id(arb, doc_clean),
                arbitration_id |-> arb,
                link_to_italaws_case_page |-> f.link_to_italaws_case_page,
                year_of_initiation |-> f.year_of_initiation,
                short_case_name |-> f.short_case_name,
                doc_date |-> f.doc_date, doc_name |-> f.doc_name,
                doc_link |-> f.doc_link,
                short_case_name_clean |-> case_clean,
                doc_name_clean |-> doc_clean,
                page_count |-> NaN, adjusted_page_count |-> NaN,
                det |-> [c \in cols |->
                            IF \E key \in DOMAIN f.details : DetailCol(key) = c
                            THEN f.details[CHOOSE key \in DOMAIN f.details : DetailCol(key) = c]
                            ELSE NaN]]
    IN [rows |-> [i \in DOMAIN flat |-> Row(flat[i])], dcols |-> cols]

\* The identifier lambdas raise on some row of the flattened list
full_pipeline_raises(data_list) ==
    \E i \in DOMAIN flattened_rows(data_list, 1) :
        LET f == flattened_rows(data_list, 1)[i]
        IN row_arbitration_id_raises(f.year_of_initiation, clean_or_none(f.short_case_name))

\* A text cell through to_csv and read_csv: None and the empty text are written
\* as an empty field, which is read as NaN
csv_cell(v) == IF v = None \/ v = <<>> THEN NaN ELSE v

\* pd.read_csv of the file doc_df.to_csv wrote
read_csv(d) ==
    [rows |-> [i \in DOMAIN d.rows |->
                 [d.rows[i] EXCEPT !.doc_id = csv_cell(@), !.arbitration_id = csv_cell(@),
                                   !.link_to_italaws_case_page = csv_cell(@),
                                   !.short_case_name = csv_cell(@),
                                   !.doc_date = csv_cell(@), !.doc_name = csv_cell(@),
                                   !.doc_link = csv_cell(@),
                                   !.short_case_name_clean = csv_cell(@),
                                   !.doc_name_clean = csv_cell(@),
                                   !.page_count = csv_cell(@),
                                   !.adjusted_page_count = csv_cell(@),
                                   !.det = [c \in DOMAIN @ |-> csv_cell(@[c])]]],
     dcols |-> d.dcols]

EmptyDataset == [rows |-> <<>>, dcols |-> {}]

\* There is no dataset yet.
InitFull ==
    /\ df = EmptyDataset
    /\ scraped = <<>>
    /\ cmp = EmptyCmp
    /\ pc = "idle"
    /\ pass = 0
    /\ existing = df
    /\ call = NoCall
    /\ documents_dir = {}
    /\ missing = NoSelection
    /\ OthersIdle

\* Steps 1-4 of run_full_pipeline: data_list with the documents attached
FullScrape ==
    /\ pc = "idle"
    /\ \E cases \in FullInputs : scraped' = cases
    /\ pc' = "listed"
    /\ UNCHANGED <<df, cmp, pass, existing, call, documents_dir, missing, others>>

\* Step 5 of run_full_pipeline: flatten, derive the identifiers, write the
\* dataset file; the next (incremental) run loads it and scrapes the same pages
FullPipeline ==
    /\ pc = "listed"
    /\ IF full_pipeline_raises(scraped)
       THEN pc' = "raised" /\ UNCHANGED <<df, existing>>
       ELSE /\ df' = read_csv(flatten_to_document_level(scraped))
            /\ existing' = df'
            /\ pc' = "scraped"
    /\ UNCHANGED <<scraped, cmp, pass, call, documents_dir, missing, others>>

NextFull == FullScrape \/ FullPipeline \/ Compare \/ Merge

SpecFull == InitFull /\ [][NextFull]_vars

\* C21: In the dataset the full run writes and in the dataset after every
\* reconciliation merge, no row has a null document name or a null document
\* identifier, also for a case without documents.
C21_NoNullNameOrId ==
    pc \in {"scraped", "compared", "merged"} =>
        \A i \in RowIdx(df) : ~IsNA(df.rows[i].doc_name) /\ ~IsNA(df.rows[i].doc_id)

\* C30: Where generate_arbitration_id returns for a row's year and case name,
\* the arbitration_id and doc_id the full pipeline gives the row equal
\* generate_arbitration_id and generate_doc_id on the row's year, case name and
\* document name (so the row has an identifier iff generate_doc_id returns
\* one); and comparing the scrape with the dataset it produced finds no new
\* document.
C30_SameIdentifiers ==
    /\ pc = "listed" =>
          \A i \in DOMAIN flattened_rows(scraped, 1) :
              LET f == flattened_rows(scraped, 1)[i]
                  row == flatten_to_document_level(scraped).rows[i]
                  eng_arb == generate_arbitration_id(f.year_of_initiation, f.short_case_name)
              IN ~ArbitrationIdRaises(f.year_of_initiation, f.short_case_name) =>
                    /\ row.arbitration_id = eng_arb
                    /\ row.doc_id = generate_doc_id(eng_arb, f.doc_name)
    /\ pc = "compared" => cmp.new = <<>>

\* ------------------------------------ scrape_all_cases, fetch_unctad_case
\* scan   the locals of scrape_all_cases: pc (loop -> fetching -> loop ... ->
\*        done), case_id (the loop variable), end_id, results,
\*        not_found_count, consecutive_not_found
\* fetch  the running call of fetch_unctad_case: case_id, attempt, the
\*        responses its requests got so far, the number of waits, and what it
\*        returned (pending, text, None)

\* max_retries of fetch_unctad_case
max_retries == 3
\* The run of missing pages after which scrape_all_cases stops
ConsecutiveNotFoundLimit == 50
\* start_id and the two end_id values run_full_pipeline passes
StartId == 1
TestEndId == 10
FullEndId == 1500

\* The highest case ID the site has a page for.
MaxExistingId == 3

\* What a request for the page of case_id may get: the page, a not-found
\* response, or a failure of the request (time-out, connection or HTTP error)
Responses(case_id) ==
    IF case_id <= MaxExistingId THEN {"ok", "not_found", "error"}
    ELSE {"not_found", "error"}

\* The variables the scan does not touch
recon == <<df, scraped, cmp, pc, pass, existing, call, documents_dir, missing,
           png, csv_file, pdf_src, downloads, interrupted>>

ReconIdle ==
    /\ df = [rows |-> <<>>, dcols |-> {}]
    /\ scraped = <<>>
    /\ cmp = EmptyCmp
    /\ pc = "idle"
    /\ pass = 0
    /\ existing = df
    /\ call = NoCall
    /\ documents_dir = {}
    /\ missing = NoSelection

\* Defect variant of fetch_attempt: a not-found response is retried like a
\* failed request.
fetch_attempt_RetryNotFound(f, response) ==
    LET g == [f EXCEPT !.responses = Append(@, response)]
    IN IF response = "ok" THEN [g EXCEPT !.returned = "text"]
       ELSE IF f.attempt < max_retries - 1
            THEN [g EXCEPT !.waits = @ + 1, !.attempt = @ + 1]
            ELSE [g EXCEPT !.returned = "None"]

\* One pass of the retry loop of fetch_unctad_case with the response the
\* request gets
fetch_attempt(f, response) ==
    LET g == [f EXCEPT !.responses = Append(@, response)]
    IN CASE response = "not_found" -> [g EXCEPT !.returned = "None"]
         [] response = "ok" -> [g EXCEPT !.returned = "text"]
         [] response = "error" ->
               IF f.attempt < max_retries - 1
               THEN [g EXCEPT !.waits = @ + 1, !.attempt = @ + 1]
               ELSE [g EXCEPT !.returned = "None"]

\* The body of the loop of scrape_all_cases once fetch_unctad_case returned
scan_step(s, html) ==
    IF html = "None"
    THEN LET t == [s EXCEPT !.not_found_count = @ + 1, !.consecutive_not_found = @ + 1]
         IN IF t.consecutive_not_found >= ConsecutiveNotFoundLimit
            THEN [t EXCEPT !.pc = "done"]
            ELSE [t EXCEPT !.pc = "loop",
                           !.results = Append(@, [unctad_case_id |-> s.case_id,
                                                  fetch_status |-> "not_found"])]
    ELSE [s EXCEPT !.pc = "loop", !.consecutive_not_found = 0,
                   !.results = Append(@, [unctad_case_id |-> s.case_id,
                                          fetch_status |-> "success"])]

InitUnctad ==
    /\ ReconIdle
    /\ \E end_id \in {TestEndId, FullEndId} :
          scan = [pc |-> "loop", case_id |-> StartId - 1, end_id |-> end_id,
                  results |-> <<>>, not_found_count |-> 0, consecutive_not_found |-> 0]
    /\ fetch = NoFetch
    /\ RestIdle

\* The loop takes the next case ID and calls fetch_unctad_case
FetchCase ==
    /\ scan.pc = "loop"
    /\ scan.case_id < scan.end_id
    /\ scan' = [scan EXCEPT !.case_id = @ + 1, !.pc = "fetching"]
    /\ fetch' = [case_id |-> scan.case_id + 1, attempt |-> 0, responses |-> <<>>,
                 waits |-> 0, returned |-> "pending"]
    /\ UNCHANGED recon

\* One request of fetch_unctad_case
Attempt ==
    /\ fetch.returned = "pending"
    /\ \E response \in Responses(fetch.case_id) : fetch' = fetch_attempt(fetch, response)
    /\ UNCHANGED <<recon, scan>>

\* fetch_unctad_case returned: the rest of the loop body
Record ==
    /\ scan.pc = "fetching"
    /\ fetch.returned \in {"text", "None"}
    /\ scan' = scan_step(scan, fetch.returned)
    /\ fetch' = NoFetch
    /\ UNCHANGED recon

\* The range of case IDs is exhausted
Finish ==
    /\ scan.pc = "loop"
    /\ scan.case_id = scan.end_id
    /\ scan' = [scan EXCEPT !.pc = "done"]
    /\ UNCHANGED <<recon, fetch>>

NextUnctad == FetchCase \/ Attempt \/ Record \/ Finish

SpecUnctad == InitUnctad /\ [][NextUnctad]_vars

\* Every request returns or fails within its time-out, and the loop goes on.
SpecUnctadFair == SpecUnctad /\ WF_vars(Attempt)

\* The number of rows of the scan's results for a case ID
RowsOfId(id) ==
    Cardinality({k \in DOMAIN scan.results : scan.results[k].unctad_case_id = id})

\* C26: When scrape_all_cases is done, its results hold exactly one row for
\* every ID from start_id up to and including the last ID fetched; the scan
\* goes on while fewer than 50 fetches in a row failed and stops at the ID
\* that completes 50; a successful fetch resets the counter to zero.
C26_EveryIdRecorded ==
    /\ scan.pc = "done" => \A id \in StartId..scan.case_id : RowsOfId(id) = 1
    /\ scan.pc \in {"loop", "fetching"} =>
          scan.consecutive_not_found < ConsecutiveNotFoundLimit
    /\ scan.pc = "done" =>
          \/ scan.consecutive_not_found = ConsecutiveNotFoundLimit
          \/ scan.case_id = scan.end_id
    /\ (/\ scan.pc = "loop"
        /\ scan.results # <<>>
        /\ scan.results[Len(scan.results)].fetch_status = "success") =>
          scan.consecutive_not_found = 0

\* The failed requests among the first n responses
Errors(responses, n) ==
    Cardinality({k \in DOMAIN responses : k <= n /\ responses[k] = "error"})

\* What holds of a call of fetch_unctad_case at every moment
FetchInv ==
    fetch # NoFetch =>
        LET rs == fetch.responses
            n == Len(rs)
        IN /\ n <= max_retries
           /\ \A k \in 1..(n - 1) : rs[k] = "error"
           /\ fetch.returned = "text" <=> (n > 0 /\ rs[n] = "ok")
           /\ (n > 0 /\ rs[n] = "not_found") => fetch.returned = "None"
           /\ fetch.returned = "None" <=>
                 (n > 0 /\ (rs[n] = "not_found" \/ (rs[n] = "error" /\ n = max_retries)))
           /\ fetch.returned = "pending" => n < max_retries
           /\ fetch.waits = Errors(rs, max_retries - 1)

\* C27: fetch_unctad_case returns after at most max_retries requests: the
\* page text at the first successful response, None at once on a not-found
\* response, None when the last of max_retries requests failed; it requests
\* again only after a failed request, and waits after each failed request
\* but the last.
C27_FetchTerminates ==
    /\ []FetchInv
    /\ (fetch.returned = "pending") ~> (fetch.returned \in {"text", "None"})

C27_Witness ==
    /\ fetch.returned = "None"
    /\ fetch.responses = <<"error", "error", "error">>
    /\ fetch.waits = 2

\* --------------------------------------------------- run_png_only_pipeline
\* png  the run of the png-only pipeline: pc (start -> analyzed -> cleaned ->
\*      converting -> done), the flags force and test, store (the PDF files of
\*      the document store, file i with the page_count cell of its row in the
\*      dataset file, what get_page_count reads from it, and its image folder
\*      at the start), images_dir (the image folders: file -> number of PNGs),
\*      pdf_files, to_skip, to_convert, to_reconvert, the folders removed, the
\*      conversions submitted and those still running

\* pdf_files[:5] of a test run
TestPdfLimit == 5

\* PDF files in the document store.
MaxPdfs == 6

\* A PDF just downloaded: no page count in the dataset yet, no image folder
KindNew == [csv |-> NaN, pdf |-> <<"3">>, folder |-> FALSE, pngs |-> 0]
\* A PDF converted completely
KindDone == [csv |-> <<"3">>, pdf |-> <<"3">>, folder |-> TRUE, pngs |-> 3]
\* A PDF whose conversion was cut short
KindPartial == [csv |-> <<"3">>, pdf |-> <<"3">>, folder |-> TRUE, pngs |-> 1]
\* A file that cannot be opened: no page count anywhere, an empty image folder
KindUnreadable == [csv |-> NaN, pdf |-> None, folder |-> TRUE, pngs |-> 0]

PdfKinds == <<KindNew, KindDone, KindPartial, KindUnreadable>>

\* The stores of at most MaxPdfs files; the files are numbered by name, those
\* of one kind next to each other
PdfStores ==
    UNION {{[i \in 1..n |-> PdfKinds[f[i]]] :
               f \in {g \in [1..n -> DOMAIN PdfKinds] :
                         \A i \in 1..n, j \in 1..n : i < j => g[i] <= g[j]}} :
           n \in 0..MaxPdfs}

\* The files of S in the order of the listing
ListOf(S, n) == SelectSeq([i \in 1..n |-> i], LAMBDA i : i \in S)

\* The listings a run works on: all PDF files, in a test run the first
\* TestPdfLimit of os.listdir, which lists in no particular order
Listings(n, test) ==
    IF test /\ n > TestPdfLimit
    THEN {S \in SUBSET (1..n) : Cardinality(S) = TestPdfLimit}
    ELSE {1..n}

\* page_counts.get(doc_id), and get_page_count(doc_id) where the cell is missing
page_count_of(store, file) ==
    IF IsNA(store[file].csv) THEN store[file].pdf ELSE store[file].csv

\* Defect variant of get_conversion_status: an existing folder is complete
\* whatever it holds.
get_conversion_status_AnyFolder(doc_id, images_dir, page_count) ==
    IF doc_id \notin DOMAIN images_dir THEN "convert" ELSE "skip"

\* get_conversion_status(doc_id, images_dir, page_count)
get_conversion_status(doc_id, images_dir, page_count) ==
    IF doc_id \notin DOMAIN images_dir THEN "convert"
    ELSE IF page_count # None /\ images_dir[doc_id] = ParseNat(page_count, 0) THEN "skip"
    ELSE "reconvert"

\* The files of pdf_files with the given status
WithStatus(p, files, status) ==
    SelectSeq(files, LAMBDA f : get_conversion_status(f, p.images_dir,
                                                      page_count_of(p.store, f)) = status)

\* convert_pdf_to_images(pdf_file): the folder is made, and holds one PNG per
\* page if the file can be read
convert_pdf_to_images(p, file) ==
    [g \in DOMAIN p.images_dir \cup {file} |->
        IF g = file
        THEN IF p.store[file].pdf = None
             THEN IF file \in DOMAIN p.images_dir THEN p.images_dir[file] ELSE 0
             ELSE ParseNat(p.store[file].pdf, 0)
        ELSE p.images_dir[g]]

InitPng ==
    /\ ReconIdle
    /\ scan = NoScan
    /\ fetch = NoFetch
    /\ csv_file = NoFile
    /\ pdf_src = <<>>
    /\ downloads = NoDownloads
    /\ interrupted = "no"
    /\ \E store \in PdfStores, force \in BOOLEAN, test \in BOOLEAN :
          png = [pc |-> "start", force |-> force, test |-> test, store |-> store,
                 images_dir |-> [f \in {g \in DOMAIN store : store[g].folder} |->
                                    store[f].pngs],
                 pdf_files |-> <<>>, to_skip |-> <<>>, to_convert |-> <<>>,
                 to_reconvert |-> <<>>, deleted |-> {}, submitted |-> <<>>,
                 pending |-> {}]

pngFrame == <<df, scraped, cmp, pc, pass, existing, call, documents_dir, missing,
              scan, fetch, csv_file, pdf_src, downloads, interrupted>>

\* The PDF files are listed and each is put on one of the three lists
Analyze ==
    /\ png.pc = "start"
    /\ \E S \in Listings(Len(png.store), png.test) :
          LET files == ListOf(S, Len(png.store))
          IN png' = IF png.force
                    THEN [png EXCEPT !.pc = "analyzed", !.pdf_files = files,
                                     !.to_reconvert = files]
                    ELSE [png EXCEPT !.pc = "analyzed", !.pdf_files = files,
                                     !.to_skip = WithStatus(png, files, "skip"),
                                     !.to_convert = WithStatus(png, files, "convert"),
                                     !.to_reconvert = WithStatus(png, files, "reconvert")]
    /\ UNCHANGED pngFrame

\* The folders of the files to reconvert are removed
Cleanup ==
    /\ png.pc = "analyzed"
    /\ LET gone == Range(png.to_reconvert) \cap DOMAIN png.images_dir
       IN png' = [png EXCEPT !.pc = "cleaned",
                             !.deleted = gone,
                             !.images_dir = [f \in DOMAIN png.images_dir \ gone |->
                                                png.images_dir[f]]]
    /\ UNCHANGED pngFrame

\* pdfs_to_process = to_convert + to_reconvert, each submitted to the pool
Submit ==
    /\ png.pc = "cleaned"
    /\ LET pdfs_to_process == png.to_convert \o png.to_reconvert
       IN png' = IF pdfs_to_process = <<>>
                 THEN [png EXCEPT !.pc = "done"]
                 ELSE [png EXCEPT !.pc = "converting",
                                  !.submitted = pdfs_to_process,
                                  !.pending = Range(pdfs_to_process)]
    /\ UNCHANGED pngFrame

\* One conversion completes
Convert ==
    /\ png.pc = "converting"
    /\ \E file \in png.pending :
          png' = [png EXCEPT !.images_dir = convert_pdf_to_images(png, file),
                             !.pending = @ \ {file}]
    /\ UNCHANGED pngFrame

\* All conversions have completed
Converted ==
    /\ png.pc = "converting"
    /\ png.pending = {}
    /\ png' = [png EXCEPT !.pc = "done"]
    /\ UNCHANGED pngFrame

NextPng == Analyze \/ Cleanup \/ Submit \/ Convert \/ Converted

SpecPng == InitPng /\ [][NextPng]_vars

\* How often file f is on list l
Occurrences(l, f) == Cardinality({k \in DOMAIN l : l[k] = f})

\* The page count of a file is known: from the dataset file or from the PDF
PageCountKnown(k) == ~IsNA(k.csv) \/ ~IsNA(k.pdf)

PageCountValue(k) == ParseNat(IF ~IsNA(k.csv) THEN k.csv ELSE k.pdf, 0)

\* The file's folder is complete at the start of the run
CompleteAtStart(k) ==
    k.folder /\ PageCountKnown(k) /\ k.pngs = PageCountValue(k)

\* What the claim says of the files in Files, once the run has analyzed them
PngPartition(Files) ==
    png.pc \in {"analyzed", "cleaned", "converting", "done"} =>
        /\ \A f \in Files :
              Occurrences(png.to_skip, f) + Occurrences(png.to_convert, f)
                  + Occurrences(png.to_reconvert, f) = 1
        /\ ~png.force =>
              \A f \in Files :
                  /\ f \in Range(png.to_skip) <=> CompleteAtStart(png.store[f])
                  /\ f \in Range(png.to_convert) <=> ~png.store[f].folder
        /\ png.force => \A f \in Files : f \in Range(png.to_reconvert)
        /\ png.deleted \subseteq Range(png.to_reconvert)
        /\ png.pc \in {"cleaned", "converting", "done"} =>
              png.deleted = {f \in Range(png.to_reconvert) : png.store[f].folder}
        /\ \A f \in Range(png.to_skip) :
              /\ Occurrences(png.submitted, f) = 0
              /\ f \in DOMAIN png.images_dir /\ png.images_dir[f] = png.store[f].pngs
        /\ png.pc \in {"converting", "done"} =>
              \A f \in Range(png.to_convert) \cup Range(png.to_reconvert) :
                  Occurrences(png.submitted, f) = 1

\* C28 as stated: every PDF of the store is on exactly one of the lists skip,
\* convert, reconvert, by the rule of get_conversion_status, and is handled
\* accordingly.
C28_AsStated == PngPartition(DOMAIN png.store)

\* C28: Every PDF the run works on (all PDFs of the store, in a test run
\* TestPdfLimit of them) is on exactly one of the lists: without --force on
\* skip iff its folder exists and its page count is known and equals the
\* number of PNGs, on convert iff it has no folder, else on reconvert; with
\* --force on reconvert.  Only folders of reconvert files are removed, skip
\* files are never submitted and keep their folder, convert and reconvert
\* files are submitted exactly once; no other file is on a list.
C28_ConversionPartition ==
    /\ PngPartition(Range(png.pdf_files))
    /\ png.pc \in {"analyzed", "cleaned", "converting", "done"} =>
          /\ Range(png.pdf_files) \subseteq DOMAIN png.store
          /\ ~png.test => Range(png.pdf_files) = DOMAIN png.store
          /\ png.test => Cardinality(Range(png.pdf_files)) =
                            IF Len(png.store) < TestPdfLimit THEN Len(png.store)
                            ELSE TestPdfLimit
          /\ Range(png.to_skip) \cup Range(png.to_convert) \cup Range(png.to_reconvert)
                = Range(png.pdf_files)

C28_Witness ==
    /\ png.pc = "done"
    /\ ~png.force
    /\ png.to_skip # <<>>
    /\ png.to_convert # <<>>
    /\ png.to_reconvert # <<>>
    /\ png.deleted # {}

\* ---------------------------------------- download_pdf, parallel_download_pdfs
\* downloads  the call of parallel_download_pdfs: documents (the records of
\*            the rows with a link), pending (the tasks that have not
\*            completed), results (what as_completed has collected)
\* pdf_src    for every file of documents_dir, the link it was downloaded from
\* missing    the rows parallel_download_pdfs is called with

\* Defect variant of download_documents: rows without a link are kept.
download_documents_AllRows(flat_rows) ==
    [k \in DOMAIN flat_rows |->
        [doc_id |-> flat_rows[k].doc_id, doc_link |-> flat_rows[k].doc_link]]

\* flat_df[["doc_id", "doc_link"]].dropna(subset=["doc_link"]).to_dict("records")
download_documents(flat_rows) ==
    SelectSeq([k \in DOMAIN flat_rows |->
                  [doc_id |-> flat_rows[k].doc_id, doc_link |-> flat_rows[k].doc_link]],
              LAMBDA doc : ~IsNA(doc.doc_link))

\* What the request of download_pdf may meet: a PDF, another response (status
\* or content type), an exception
DownloadResponses == {"pdf", "other", "exception"}

\* download_pdf(doc) under the response its request meets: the result it
\* returns and whether it wrote the file
download_pdf(doc, response) ==
    IF ~Truthy(doc.doc_id) \/ ~Truthy(doc.doc_link) \/ IsNA(doc.doc_link)
    THEN [result |-> [doc_id |-> doc.doc_id, status |-> "skipped"], wrote |-> FALSE]
    ELSE CASE response = "pdf" ->
                [result |-> [doc_id |-> doc.doc_id, status |-> "downloaded"], wrote |-> TRUE]
           [] response = "other" ->
                [result |-> [doc_id |-> doc.doc_id, status |-> "failed"], wrote |-> FALSE]
           [] response = "exception" ->
                [result |-> [doc_id |-> doc.doc_id, status |-> "error"], wrote |-> FALSE]

\* The store after f.write(response.content) to <doc_id>.pdf
WriteFile(src, name, link) ==
    [n \in DOMAIN src \cup {name} |-> IF n = name THEN link ELSE src[n]]

\* The tasks are submitted
StartDownloads ==
    /\ pc = "selected"
    /\ LET documents == download_documents(missing.rows)
       IN /\ downloads' = [documents |-> documents, pending |-> DOMAIN documents,
                           results |-> <<>>]
          /\ pc' = "downloading"
    /\ UNCHANGED <<df, scraped, cmp, pass, existing, call, documents_dir, missing,
                   scan, fetch, png, csv_file, pdf_src, interrupted>>

\* One task completes and as_completed hands its result over; after an
\* interrupt the pool still runs the tasks to their end, nothing is collected
DownloadDone ==
    /\ pc = "downloading" \/ (pc = "interrupted" /\ interrupted = "downloading")
    /\ \E k \in downloads.pending, response \in DownloadResponses :
          LET doc == downloads.documents[k]
              out == download_pdf(doc, response)
          IN /\ downloads' = [downloads EXCEPT
                                 !.pending = @ \ {k},
                                 !.results = IF pc = "interrupted" THEN @
                                             ELSE Append(@, out.result)]
             /\ IF out.wrote
                THEN /\ documents_dir' = documents_dir \cup {PdfName(doc.doc_id)}
                     /\ pdf_src' = WriteFile(pdf_src, PdfName(doc.doc_id), doc.doc_link)
                ELSE UNCHANGED <<documents_dir, pdf_src>>
    /\ UNCHANGED <<df, scraped, cmp, pc, pass, existing, call, missing,
                   scan, fetch, png, csv_file, interrupted>>

\* All tasks have completed: parallel_download_pdfs returns results
DownloadsReturn ==
    /\ pc = "downloading"
    /\ downloads.pending = {}
    /\ pc' = "downloaded"
    /\ UNCHANGED <<df, scraped, cmp, pass, existing, call, documents_dir, missing, others>>

\* The rows parallel_download_pdfs may be called with: doc_df of the full run
\* (documents without identifier or link included) or the missing rows
RowNoIdMem == [RowNoId EXCEPT !.doc_id = None]

DownloadRows == {RowAward, RowAwardDup, RowOrder, RowOrderUnlinked, RowNoIdMem}

InitDownload ==
    /\ df = [rows |-> <<>>, dcols |-> {}]
    /\ scraped = <<>>
    /\ cmp = EmptyCmp
    /\ pass = 0
    /\ existing = df
    /\ call = NoCall
    /\ documents_dir = {}
    /\ \E rows \in UNION {[1..k -> DownloadRows] : k \in 0..MaxPdfRows} :
          missing = [index |-> [i \in DOMAIN rows |-> i], rows |-> rows]
    /\ pc = "selected"
    /\ OthersIdle

NextDownload == StartDownloads \/ DownloadDone \/ DownloadsReturn

SpecDownload == InitDownload /\ [][NextDownload]_vars

\* How many entries of the list l of records have doc_id id
CountId(l, id) == Cardinality({k \in DOMAIN l : l[k].doc_id = id})

LinkedRows(rows) == SelectSeq(rows, LAMBDA r : ~IsNA(r.doc_link))

\* C23: parallel_download_pdfs returns exactly one result for every row with
\* a non-null doc_link, with the row's doc_id and one of the statuses
\* downloaded, failed, error, skipped, whichever tasks fail and in whatever
\* order they complete; no task raises.
C23_OneResultPerRow ==
    /\ pc = "downloaded" =>
          /\ Len(downloads.results) = Len(LinkedRows(missing.rows))
          /\ \A k \in DOMAIN missing.rows :
                ~IsNA(missing.rows[k].doc_link) =>
                    CountId(downloads.results, missing.rows[k].doc_id)
                        = CountId(LinkedRows(missing.rows), missing.rows[k].doc_id)
          /\ \A k \in DOMAIN downloads.results :
                downloads.results[k].status \in {"downloaded", "failed", "error", "skipped"}
    /\ pc = "downloading" =>
          Len(downloads.results) + Cardinality(downloads.pending)
              = Len(LinkedRows(missing.rows))

\* Two tasks complete in the other order, one of them failing
C23_Witness ==
    /\ pc = "downloaded"
    /\ Len(downloads.results) = 2
    /\ Len(missing.rows) = 3
    /\ downloads.results[1].doc_id = downloads.documents[2].doc_id
    /\ downloads.results[1].doc_id # downloads.results[2].doc_id
    /\ downloads.results[1].status = "error"
    /\ downloads.results[2].status = "downloaded"

\* -------------------------------------------------- run_incremental_pipeline
\* One incremental run: load, scrape, compare, merge, write the dataset file,
\* download the missing PDFs, fill in the page counts, convert the new PDFs.
\* df         updated_df, the table in memory
\* csv_file   data/unctad_document_level_data.csv, as read_csv loads it
\* png        images_dir (the identifiers with an image folder) and pending
\*            (the conversions that have not completed)
\* pc         idle -> scraped -> compared -> merged -> written -> selected ->
\*            downloading -> downloaded -> counted -> converting -> done,
\*            or interrupted (interrupted then holds the step left)

\* doc.page_count / the adjusted count of the binary downloaded from link
PagesOf(link) == IF link = LinkA THEN <<"3">> ELSE <<"5">>

AdjustedPagesOf(link) == IF link = LinkA THEN <<"4">> ELSE <<"5">>

\* get_page_count(doc_id): None if the file does not exist
get_page_count(doc_id, dir, src) ==
    IF PdfName(doc_id) \notin dir THEN None ELSE PagesOf(src[PdfName(doc_id)])

\* get_adjusted_page_count(doc_id)
get_adjusted_page_count(doc_id, dir, src) ==
    IF PdfName(doc_id) \notin dir THEN None ELSE AdjustedPagesOf(src[PdfName(doc_id)])

\* Defect variant of update_page_counts: the counts of all rows are computed.
update_page_counts_AllRows(d, dir, src) ==
    [d EXCEPT !.rows =
        [i \in DOMAIN d.rows |->
            [d.rows[i] EXCEPT
                !.page_count = csv_cell(get_page_count(d.rows[i].doc_id, dir, src)),
                !.adjusted_page_count =
                    csv_cell(get_adjusted_page_count(d.rows[i].doc_id, dir, src))]]]

\* updated_df.loc[mask, ...] = ... with mask = updated_df['page_count'].isna()
update_page_counts(d, dir, src) ==
    [d EXCEPT !.rows =
        [i \in DOMAIN d.rows |->
            IF IsNA(d.rows[i].page_count)
            THEN [d.rows[i] EXCEPT
                    !.page_count = csv_cell(get_page_count(d.rows[i].doc_id, dir, src)),
                    !.adjusted_page_count =
                        csv_cell(get_adjusted_page_count(d.rows[i].doc_id, dir, src))]
            ELSE d.rows[i]]]

\* Defect variant of written_table: the appended rows are left to later writes.
written_table_OldRows(updated_df, old_df) ==
    read_csv([updated_df EXCEPT !.rows = SubSeq(@, 1, Len(old_df.rows))])

\* The table updated_df.to_csv writes after the merge
written_table(updated_df, old_df) == read_csv(updated_df)

\* The documents the case page may show in this run
RunDocs ==
    {BaseDoc,
     [BaseDoc EXCEPT !.doc_link = LinkB],
     [BaseDoc EXCEPT !.doc_name = Order, !.doc_link = LinkB]}

RunInputs == {<<MakeCase(BaseMeta, dl)>> : dl \in DocSeqs(RunDocs, MaxDocs)}

\* The dataset files a run starts from
RunDatasets ==
    {[rows |-> rs, dcols |-> {ColK}] :
        rs \in {<<>>, <<RowAward>>, <<RowAward, RowAwardDup>>, <<RowNoDoc>>}}

\* The store at the start of the run: empty, or with the binary of RowAward
\* downloaded from LinkA and converted by an earlier run
RunDirs == {{}, {PdfName(RowAward.doc_id)}}

InitRun ==
    /\ df \in RunDatasets
    /\ csv_file = df
    /\ existing = df
    /\ scraped = <<>>
    /\ cmp = EmptyCmp
    /\ pc = "idle"
    /\ pass = 0
    /\ call = NoCall
    /\ missing = NoSelection
    /\ documents_dir \in RunDirs
    /\ pdf_src = [n \in documents_dir |-> LinkA]
    /\ png = [pc |-> "none",
              images_dir |-> IF documents_dir = {} THEN {} ELSE {RowAward.doc_id},
              pending |-> {}]
    /\ downloads = NoDownloads
    /\ interrupted = "no"
    /\ scan = NoScan
    /\ fetch = NoFetch

\* scraped_cases = scrape_case_documents(case_urls_df)
RunScrape ==
    /\ pc = "idle"
    /\ \E cases \in RunInputs : scraped' = cases
    /\ pc' = "scraped"
    /\ UNCHANGED <<df, cmp, pass, existing, call, documents_dir, missing, others>>

\* updated_df.to_csv(...) after the merge
WriteMerged ==
    /\ pc = "merged"
    /\ csv_file' = written_table(df, existing)
    /\ pc' = "written"
    /\ UNCHANGED <<df, scraped, cmp, pass, existing, call, documents_dir, missing,
                   scan, fetch, png, pdf_src, downloads, interrupted>>

\* --skip-download: no download and no page counts
SkipDownload ==
    /\ pc = "written"
    /\ pc' = "counted"
    /\ UNCHANGED <<df, scraped, cmp, pass, existing, call, documents_dir, missing, others>>

\* missing_pdfs = get_missing_pdfs(updated_df); without any, no download
SelectMissing ==
    /\ pc = "written"
    /\ missing' = get_missing_pdfs(df, documents_dir)
    /\ pc' = IF Len(missing'.rows) > 0 THEN "selected" ELSE "downloaded"
    /\ UNCHANGED <<df, scraped, cmp, pass, existing, call, documents_dir, others>>

\* The dataset file is read, the page counts of the rows without one are
\* computed, and the file is written if there was such a row
UpdatePageCounts ==
    /\ pc = "downloaded"
    /\ IF \E i \in RowIdx(csv_file) : IsNA(csv_file.rows[i].page_count)
       THEN /\ df' = update_page_counts(csv_file, documents_dir, pdf_src)
            /\ csv_file' = df'
       ELSE /\ df' = csv_file
            /\ UNCHANGED csv_file
    /\ pc' = "counted"
    /\ UNCHANGED <<scraped, cmp, pass, existing, call, documents_dir, missing,
                   scan, fetch, png, pdf_src, downloads, interrupted>>

\* --skip-png
SkipPng ==
    /\ pc = "counted"
    /\ pc' = "done"
    /\ UNCHANGED <<df, scraped, cmp, pass, existing, call, documents_dir, missing, others>>

\* The PDFs without an image folder are submitted for conversion
StartConvert ==
    /\ pc = "counted"
    /\ LET new_pdfs == {n \in documents_dir :
                           \A id \in png.images_dir : PdfName(id) # n}
       IN /\ png' = [png EXCEPT !.pending = new_pdfs]
          /\ pc' = IF new_pdfs = {} THEN "done" ELSE "converting"
    /\ UNCHANGED <<df, scraped, cmp, pass, existing, call, documents_dir, missing,
                   scan, fetch, csv_file, pdf_src, downloads, interrupted>>

\* One conversion completes (convert_pdf_to_images makes the folder)
ConvertDone ==
    /\ pc = "converting" \/ (pc = "interrupted" /\ interrupted = "converting")
    /\ \E n \in png.pending :
          png' = [png EXCEPT !.pending = @ \ {n},
                             !.images_dir = @ \cup {SubSeq(n, 1, Len(n) - Len(PdfExt))}]
    /\ UNCHANGED <<df, scraped, cmp, pc, pass, existing, call, documents_dir, missing,
                   scan, fetch, csv_file, pdf_src, downloads, interrupted>>

\* All conversions have completed
ConvertsReturn ==
    /\ pc = "converting"
    /\ png.pending = {}
    /\ pc' = "done"
    /\ UNCHANGED <<df, scraped, cmp, pass, existing, call, documents_dir, missing, others>>

\* KeyboardInterrupt: main prints and exits; the pools' tasks may still end
Interrupt ==
    /\ pc \notin {"idle", "done", "raised", "interrupted"}
    /\ interrupted' = pc
    /\ pc' = "interrupted"
    /\ UNCHANGED <<df, scraped, cmp, pass, existing, call, documents_dir, missing,
                   scan, fetch, png, csv_file, pdf_src, downloads>>

NextRun ==
    \/ RunScrape \/ Compare \/ Merge \/ WriteMerged
    \/ SkipDownload \/ SelectMissing
    \/ StartDownloads \/ DownloadDone \/ DownloadsReturn
    \/ UpdatePageCounts
    \/ SkipPng \/ StartConvert \/ ConvertDone \/ ConvertsReturn
    \/ Interrupt

SpecRun == InitRun /\ [][NextRun]_vars

\* A row without its page-count columns
SansCounts(row) == [row EXCEPT !.page_count = NaN, !.adjusted_page_count = NaN]

\* The two tables have the same rows in the same order, page counts aside
SameTable(a, b) ==
    /\ a.dcols = b.dcols
    /\ Len(a.rows) = Len(b.rows)
    /\ \A i \in DOMAIN a.rows : SansCounts(a.rows[i]) = SansCounts(b.rows[i])

\* C22: The page-count update of an incremental run adds and removes no row,
\* changes no column but page_count and adjusted_page_count, and leaves both
\* as they were in every row whose page_count was not null.
C22_PageCountFrame ==
    [][(pc = "downloaded" /\ pc' = "counted") =>
          /\ SameTable(csv_file, csv_file')
          /\ df' = csv_file'
          /\ \A i \in RowIdx(csv_file) :
                ~IsNA(csv_file.rows[i].page_count) =>
                    /\ csv_file'.rows[i].page_count = csv_file.rows[i].page_count
                    /\ csv_file'.rows[i].adjusted_page_count
                          = csv_file.rows[i].adjusted_page_count]_vars

\* A row appended by this run has got its page count, next to a row that had one
C22_Witness ==
    /\ pc = "counted"
    /\ \E i \in RowIdx(csv_file) :
          i > Len(existing.rows) /\ ~IsNA(csv_file.rows[i].page_count)
    /\ \E j \in RowIdx(existing) :
          /\ ~IsNA(existing.rows[j].page_count)
          /\ csv_file.rows[j].page_count = existing.rows[j].page_count

\* The step the run is in, or was in when it was interrupted
Phase == IF pc = "interrupted" THEN interrupted ELSE pc

\* The table merge_updates returns in this run, as a file holds it
MergedTable == read_csv(merge_updates(existing, cmp))

\* C24: The dataset file is written only by the step after the completed
\* merge and by the page-count update, never while a download or conversion
\* task is outstanding; so from the write after the merge on, also when the
\* run is interrupted during the downloads or the conversions, the file holds
\* every row of the merged table, and before it the table the run loaded.
C24_FileWrittenAfterMerge ==
    /\ [](Phase \in {"written", "selected", "downloading", "downloaded",
                     "counted", "converting", "done"} =>
              SameTable(csv_file, MergedTable))
    /\ [](Phase \in {"idle", "scraped", "compared", "raised", "merged"} =>
              csv_file = existing)
    /\ [][csv_file' # csv_file =>
              /\ pc \in {"merged", "downloaded"}
              /\ downloads.pending = {}
              /\ png.pending = {}]_vars

\* Interrupted while downloads run, the appended rows are in the file
C24_Witness ==
    /\ pc = "interrupted"
    /\ interrupted = "downloading"
    /\ downloads.pending # {}
    /\ Len(csv_file.rows) > Len(existing.rows)

\* C29: A run selects no identifier whose binary exists; the binary of an
\* existing file is never replaced and the file never removed; and a non-null
\* page count of a row whose binary exists is never computed again: binary
\* and page counts stay those of the first downloaded link.
C29_StoredBinaryStays ==
    /\ [](pc = "selected" =>
              \A k \in DOMAIN missing.rows :
                  PdfName(missing.rows[k].doc_id) \notin documents_dir)
    /\ [][\A n \in documents_dir :
              n \in documents_dir' /\ pdf_src'[n] = pdf_src[n]]_vars
    /\ [][\A i \in RowIdx(csv_file) :
              (/\ ~IsNA(csv_file.rows[i].page_count)
               /\ PdfName(csv_file.rows[i].doc_id) \in documents_dir) =>
                  /\ i \in RowIdx(csv_file')
                  /\ csv_file'.rows[i].page_count = csv_file.rows[i].page_count
                  /\ csv_file'.rows[i].adjusted_page_count
                        = csv_file.rows[i].adjusted_page_count]_vars

====
